---- MODULE Spec2Model ----
(***************************************************************************)
(* ZYEON AI realtime backend: the rate limiter, the retry wrapper, the     *)
(* response generator (services/ai_service.py) and the conversation store  *)
(* (models/conversation.py), as a state machine.                            *)
(*                                                                          *)
(* Strings are TLA+ strings; strip(), lower() and the substring test `in`   *)
(* are computed character by character.  Time is the integer `now`, in      *)
(* seconds, as time.time() reads it.                                        *)
(***************************************************************************)
EXTENDS Integers, Sequences, FiniteSets, TLC

(***************************************************************************)
(* Bounds of the model.  max_calls, time_window and max_context_messages    *)
(* are attributes set at construction (50, 60 and 20 in ai_service.py:61    *)
(* and :84); the model runs them scaled down, which keeps their relations   *)
(* to the other bounds (a window shorter than the run, histories longer     *)
(* than the context cap).                                                   *)
(***************************************************************************)
max_calls == 2

time_window == 2

max_context_messages == 2

MaxTime == 4

MaxTurns == 3

\* how long the runs of SpecConc, SpecCtx and SpecStore last
ConcHorizon == 1

StoreHorizon == 2

\* SpecConc starts no further call once this many calls were recorded
MaxRecorded == 3

CtxHorizon == 1

\* how many turns the server of main_original.py answers in a run
MaxOriginalTurns == 2

\* how many listening loops, recognitions and utterances a run starts
MaxLoops == 2

MaxAudio == 1

MaxUtterances == 2

\* how long a day lasts on the clock of SpecRetain, and how long its runs last
DayLength == 2

RetainHorizon == 3

(***************************************************************************)
(* Program constants.                                                       *)
(***************************************************************************)
max_retries == 3

delay == 1

max_tokens_per_request == 1000

\* recognizer.listen(source, timeout=...), settings['recognition_timeout']
recognition_timeout == 5

\* voice_thread.join(timeout=...)
join_timeout == 2

None == "<None>"

EmptyMap == <<>>

(***************************************************************************)
(* String functions of the Python runtime the code uses.                    *)
(***************************************************************************)
UpperCase == "ABCDEFGHIJKLMNOPQRSTUVWXYZ"

LowerCase == "abcdefghijklmnopqrstuvwxyz"

CharAt(s, i) == SubSeq(s, i, i)

LowerChar(c) ==
    IF \E i \in 1..Len(UpperCase) : CharAt(UpperCase, i) = c
    THEN CharAt(LowerCase, CHOOSE i \in 1..Len(UpperCase) : CharAt(UpperCase, i) = c)
    ELSE c

RECURSIVE lower(_)
lower(s) ==
    IF Len(s) = 0 THEN ""
    ELSE LowerChar(CharAt(s, 1)) \o lower(SubSeq(s, 2, Len(s)))

\* Python's `sub in s` on strings
Contains(s, sub) ==
    \E i \in 1..(Len(s) - Len(sub) + 1) : SubSeq(s, i, i + Len(sub) - 1) = sub

IsSpace(c) == c \in {" ", "\n", "\t"}

RECURSIVE lstrip(_)
lstrip(s) ==
    IF Len(s) > 0 /\ IsSpace(CharAt(s, 1)) THEN lstrip(SubSeq(s, 2, Len(s))) ELSE s

RECURSIVE rstrip(_)
rstrip(s) ==
    IF Len(s) > 0 /\ IsSpace(CharAt(s, Len(s))) THEN rstrip(SubSeq(s, 1, Len(s) - 1)) ELSE s

strip(s) == rstrip(lstrip(s))

\* Python truthiness of a str or None argument
Truthy(s) == s # None /\ Len(s) > 0

(***************************************************************************)
(* Sequence helpers.                                                        *)
(***************************************************************************)
\* [c for c in s if n - c < w], the comprehension of can_make_call
RECURSIVE KeepWithin(_, _, _)
KeepWithin(s, n, w) ==
    IF s = <<>> THEN <<>>
    ELSE (IF n - Head(s) < w THEN <<Head(s)>> ELSE <<>>) \o KeepWithin(Tail(s), n, w)

\* s[-n:] for n > 0
LastN(s, n) == IF Len(s) <= n THEN s ELSE SubSeq(s, Len(s) - n + 1, Len(s))

RECURSIVE Pow2(_)
Pow2(n) == IF n = 0 THEN 1 ELSE 2 * Pow2(n - 1)

(***************************************************************************)
(* State.                                                                   *)
(***************************************************************************)
VARIABLES
    now,            \* the wall clock, time.time()
    calls,          \* RateLimiter.calls, the log of recorded call times
    api_key,        \* ZyeonAIService.api_key
    conversations,  \* the conversations collection, in insertion order
    threads,        \* the request-handler threads of this run
    pc,             \* each thread's position in get_ai_response
    fr,             \* each thread's locals
    recorded,       \* history variable: every time record_call appended
    ai_service,         \* main.py global: None or the ZyeonAIService
    conversation_model, \* main.py global: None or the ConversationModel
    connected_clients,  \* main.py global: client id -> client info
    sessions,           \* the sessions collection, in insertion order
    users,              \* the users collection: user_id -> document
    flask_session,      \* flask.session of the browser ("http") and of each socket
    uuid_count,         \* how many uuid4() values were drawn
    sockets,            \* the Socket.IO server's view of each connection
    hpc,                \* each thread's position in a handler of main.py
    hfr,                \* each thread's locals in that handler
    voice_service,      \* main.py global: the VoiceService object's fields
    listen_threads,     \* every _listen_loop thread started, in order of creation
    audio_threads,      \* every _process_audio thread started
    speech_threads,     \* every _speak_text_thread thread started
    vpc,                \* each voice caller's position in a public method
    vfr,                \* each voice caller's locals
    deleted_count,      \* what the last cleanup_old_conversations returned
    removed,            \* history variable: every document delete_many removed
    zyeon               \* main_original.py global: the ZyeonAI object

\* the state of main.py
\* the voice bridge: the object, its threads and the callers of its methods
voicevars == <<voice_service, listen_threads, audio_threads, speech_threads, vpc, vfr>>

\* the maintenance of the conversations collection
cleanupvars == <<deleted_count, removed>>

\* the state of main_original.py
origvars == <<zyeon>>

appvars == <<ai_service, conversation_model, connected_clients, sessions, users,
             flask_session, uuid_count, sockets, hpc, hfr, voicevars, cleanupvars, origvars>>

vars == <<now, calls, api_key, conversations, threads, pc, fr, recorded, appvars>>

AllThreads == {"t1", "t2"}

(***************************************************************************)
(* RateLimiter (ai_service.py:18-36).                                       *)
(***************************************************************************)
\* mutants of PruneCalls: the window's edge included; the window one second short
PruneCallsInclusive(cs, n) == KeepWithin(cs, n, time_window + 1)

PruneCallsEager(cs, n) == KeepWithin(cs, n, time_window - 1)

\* the comprehension of can_make_call: the entries still inside the window
PruneCalls(cs, n) == KeepWithin(cs, n, time_window)

\* mutant of BelowLimit: off by one
BelowLimitOffByOne(cs) == Len(cs) <= max_calls

\* the value can_make_call returns, over the pruned log
BelowLimit(cs) == Len(cs) < max_calls

(***************************************************************************)
(* ZyeonAIService: prompts and context assembly (ai_service.py:66-107).     *)
(***************************************************************************)
system_prompts ==
    [default   |-> "You are ZYEON, an advanced AI assistant with a futuristic personality.",
     voice     |-> "You are ZYEON, an advanced AI assistant optimized for voice interaction.",
     technical |-> "You are ZYEON, a technical AI assistant specializing in programming and technology."]

_get_system_prompt(context_type) ==
    IF context_type \in DOMAIN system_prompts
    THEN system_prompts[context_type]
    ELSE system_prompts["default"]

\* mutant of recent_history: the slice forgotten
recent_history_unbounded(conversation_history) == conversation_history

\* conversation_history[-self.max_context_messages:]
recent_history(conversation_history) == LastN(conversation_history, max_context_messages)

RECURSIVE HistoryMessages(_, _)
HistoryMessages(recent, i) ==
    IF i > Len(recent) THEN <<>>
    ELSE (IF "user_message" \in DOMAIN recent[i] /\ "ai_response" \in DOMAIN recent[i]
          THEN << [role |-> "user", content |-> recent[i].user_message],
                  [role |-> "assistant", content |-> recent[i].ai_response] >>
          ELSE <<>>)
         \o HistoryMessages(recent, i + 1)

_prepare_conversation_context(conversation_history, context_type) ==
    << [role |-> "system", content |-> _get_system_prompt(context_type)] >>
    \o HistoryMessages(recent_history(conversation_history), 1)

(***************************************************************************)
(* The exceptions get_ai_response raises itself, by their str().            *)
(***************************************************************************)
RateLimitExceededMsg == "Rate limit exceeded. Please try again later."

EmptyInputMsg == "User input cannot be empty"

NoApiKeyMsg == "OpenAI API key not configured"

NoneStripMsg == "'NoneType' object has no attribute 'strip'"

(***************************************************************************)
(* The except clause of get_ai_response (ai_service.py:182-195).            *)
(***************************************************************************)
RateLimitApology == "I'm experiencing high demand right now. Please try again in a moment."

InvalidApology == "I'm having trouble processing your request. Please try rephrasing it."

AuthApology == "I'm experiencing authentication issues. Please contact support."

ConnectionApology == "I'm having trouble connecting to my AI services. Please try again."

GenericApology == "I apologize, but I'm experiencing technical difficulties. Please try again."

DegradedResponse(e) ==
    IF Contains(lower(e), "rate_limit") THEN RateLimitApology
    ELSE IF Contains(lower(e), "invalid") THEN InvalidApology
    ELSE IF Contains(lower(e), "authentication") THEN AuthApology
    ELSE IF Contains(lower(e), "connection") THEN ConnectionApology
    ELSE GenericApology

\* what the body of get_ai_response hands to the retry wrapper
Returned(text, metadata) == [kind |-> "return", text |-> text, metadata |-> metadata]

Raised(e) == [kind |-> "raise", exc |-> e]

NoResult == [kind |-> "none"]

\* mutant of ExceptClause: the exception re-raised
ExceptClauseReraises(e) == Raised(e)

ExceptClause(e) == Returned(DegradedResponse(e), EmptyMap)

(***************************************************************************)
(* The upstream model backend, as a stub: what the k-th invocation made by  *)
(* one get_ai_response call does.                                           *)
(***************************************************************************)
Reply(content) ==
    [kind |-> "reply", content |-> content,
     usage |-> [total_tokens |-> 3, prompt_tokens |-> 2, completion_tokens |-> 1]]

Fails(msg) == [kind |-> "error", msg |-> msg]

UpstreamOk == Reply(" Hello there. ")

UpstreamBlank == Reply("  ")

UpstreamNone == Reply(None)

UpstreamErrors ==
    { Fails("Error code: 429 - rate_limit_exceeded"),
      Fails("Error code: 400 - Invalid request"),
      Fails("Authentication failed"),
      Fails("Connection error."),
      Fails("Request timed out.") }

Timeout == Fails("Request timed out.")

\* stubs: the outcome of each of up to max_retries invocations
Plans ==
    { [k \in 1..max_retries |-> UpstreamOk],
      [k \in 1..max_retries |-> IF k < max_retries THEN Timeout ELSE UpstreamOk],
      [k \in 1..max_retries |-> Timeout],
      [k \in 1..max_retries |-> UpstreamBlank],
      [k \in 1..max_retries |-> UpstreamNone] }
    \cup { [k \in 1..max_retries |-> e] : e \in UpstreamErrors }

FailsTwiceThenSucceeds == [k \in 1..max_retries |-> IF k < max_retries THEN Timeout ELSE UpstreamOk]

AlwaysSucceeds == [k \in 1..max_retries |-> UpstreamOk]

(***************************************************************************)
(* ConversationModel (models/conversation.py:49-117).                       *)
(***************************************************************************)
\* datetime.isoformat(): the time as text, no longer a datetime
isoformat(ts) == [iso |-> ts]

\* the document create_conversation inserts
ConversationDocument(user_message, ai_response, user_id, conversation_id, session_id, message_type, metadata) ==
    [_id |-> Len(conversations) + Cardinality(removed) + 1,
     conversation_id |-> IF Truthy(conversation_id) THEN conversation_id
                         ELSE "conv_" \o ToString(now),
     user_id |-> user_id,
     session_id |-> session_id,
     timestamp |-> now,
     user_message |-> user_message,
     ai_response |-> ai_response,
     message_type |-> message_type,
     metadata |-> metadata,
     created_at |-> now,
     updated_at |-> now]

\* find(query): the documents matching the filters that were given
Matches(doc, user_id, conversation_id, session_id) ==
    /\ Truthy(user_id) => doc.user_id = user_id
    /\ Truthy(conversation_id) => doc.conversation_id = conversation_id
    /\ Truthy(session_id) => doc.session_id = session_id

\* projection {"_id": 0} and the isoformat loop
HistoryEntry(doc) ==
    [conversation_id |-> doc.conversation_id,
     user_id |-> doc.user_id,
     session_id |-> doc.session_id,
     timestamp |-> isoformat(doc.timestamp),
     user_message |-> doc.user_message,
     ai_response |-> doc.ai_response,
     message_type |-> doc.message_type,
     metadata |-> doc.metadata,
     created_at |-> isoformat(doc.created_at),
     updated_at |-> isoformat(doc.updated_at)]

\* sort("timestamp", DESCENDING): every order of the matching documents with
\* timestamps non-increasing (the order among equal timestamps is the store's)
SortedDescending(docs, user_id, conversation_id, session_id) ==
    LET matching == {i \in DOMAIN docs :
                        Matches(docs[i], user_id, conversation_id, session_id)}
        n == Cardinality(matching)
    IN  { [k \in 1..n |-> docs[order[k]]] :
            order \in { o \in [1..n -> matching] :
                          /\ \A a, b \in 1..n : a # b => o[a] # o[b]
                          /\ \A a, b \in 1..n :
                                a < b => docs[o[a]].timestamp >= docs[o[b]].timestamp } }

\* skip(offset).limit(limit); limit(0) is no limit in the store's driver
SkipLimit(s, offset, limit) ==
    LET rest == IF offset >= Len(s) THEN <<>> ELSE SubSeq(s, offset + 1, Len(s))
    IN  IF limit = 0 \/ Len(rest) <= limit THEN rest ELSE SubSeq(rest, 1, limit)

\* the sequences get_conversation_history can return
get_conversation_history(user_id, conversation_id, session_id, limit, offset) ==
    { [k \in DOMAIN SkipLimit(sorted, offset, limit) |->
            HistoryEntry(SkipLimit(sorted, offset, limit)[k])] :
        sorted \in SortedDescending(conversations, user_id, conversation_id, session_id) }

(***************************************************************************)
(* A thread's locals inside the retry wrapper and get_ai_response.          *)
(***************************************************************************)
IdleFrame ==
    [user_input |-> None, conversation_history |-> <<>>, context_type |-> "default",
     temperature |-> "0.7", max_tokens |-> None,
     upstream |-> AlwaysSucceeds,  \* the stub this call meets
     func |-> "get_ai_response",   \* the function under retry_on_failure
     attempt |-> 0,                \* the wrapper's loop variable
     wake |-> 0,                   \* end of the wrapper's time.sleep
     check_time |-> 0,             \* `now` of can_make_call
     pruned |-> <<>>,              \* the list the comprehension built
     messages |-> <<>>,
     start_time |-> 0,
     exc |-> None,
     outcome |-> NoResult,         \* what the function body returned or raised
     result |-> NoResult,          \* what the caller of the wrapper gets
     \* history variables of the call
     given_history |-> <<>>, from_store |-> FALSE,
     verdict |-> "-",              \* what can_make_call last returned
     admitted |-> 0, invocations |-> 0, records |-> 0, slept |-> <<>>]

NewFrame(user_input, conversation_history, context_type, upstream, from_store) ==
    [IdleFrame EXCEPT !.user_input = user_input,
                      !.conversation_history = conversation_history,
                      !.given_history = conversation_history,
                      !.context_type = context_type,
                      !.upstream = upstream,
                      !.from_store = from_store]

(***************************************************************************)
(* get_ai_response under retry_on_failure, one action per step.  A step     *)
(* ends where the thread next reads or writes state shared with other       *)
(* threads, or hands control to the backend.                                *)
(***************************************************************************)
Set(t, f) == fr' = [fr EXCEPT ![t] = f]

Goto(t, label) == pc' = [pc EXCEPT ![t] = label]

\* A caller invokes the decorated get_ai_response: wrapper() starts its loop
\* (ai_service.py:42-45).  None for the history is the default argument; the
\* model writes it as the empty list it is replaced with at line 135.
Call(t, user_input, conversation_history, context_type, upstream, from_store) ==
    /\ pc[t] = "idle"
    /\ Set(t, NewFrame(user_input, conversation_history, context_type, upstream, from_store))
    /\ Goto(t, "can_make_call")
    /\ UNCHANGED <<now, calls, api_key, conversations, threads, recorded, appvars>>

\* can_make_call, lines 28-30: now = time.time() and the comprehension over
\* self.calls.  A retry enters here once the wrapper's sleep is over.
CanMakeCallFilter(t) ==
    /\ pc[t] = "can_make_call"
    /\ now >= fr[t].wake
    /\ Set(t, [fr[t] EXCEPT !.check_time = now, !.pruned = PruneCalls(calls, now)])
    /\ Goto(t, "store_calls")
    /\ UNCHANGED <<now, calls, api_key, conversations, threads, recorded, appvars>>

\* can_make_call, line 30: the assignment to self.calls
CanMakeCallStore(t) ==
    /\ pc[t] = "store_calls"
    /\ calls' = fr[t].pruned
    /\ Goto(t, "len_calls")
    /\ UNCHANGED <<now, api_key, conversations, threads, fr, recorded, appvars>>

\* can_make_call, line 32, and the test of line 124
CanMakeCallReturn(t) ==
    /\ pc[t] = "len_calls"
    /\ IF BelowLimit(calls)
       THEN /\ Set(t, [fr[t] EXCEPT !.verdict = "yes", !.admitted = @ + 1])
            /\ Goto(t, "validate")
       ELSE /\ Set(t, [fr[t] EXCEPT !.verdict = "no", !.exc = RateLimitExceededMsg])
            /\ Goto(t, "except")
    /\ UNCHANGED <<now, calls, api_key, conversations, threads, recorded, appvars>>

\* lines 127-143: input validation, context assembly, token limit
Validate(t) ==
    /\ pc[t] = "validate"
    /\ IF ~Truthy(fr[t].user_input) \/ ~Truthy(strip(fr[t].user_input))
       THEN /\ Set(t, [fr[t] EXCEPT !.exc = EmptyInputMsg])
            /\ Goto(t, "except")
       ELSE IF ~Truthy(api_key)
       THEN /\ Set(t, [fr[t] EXCEPT !.exc = NoApiKeyMsg])
            /\ Goto(t, "except")
       ELSE /\ Set(t, [fr[t] EXCEPT
                    !.messages =
                        _prepare_conversation_context(fr[t].conversation_history,
                                                      fr[t].context_type)
                        \o << [role |-> "user", content |-> strip(fr[t].user_input)] >>,
                    !.max_tokens = IF @ = None THEN max_tokens_per_request ELSE @])
            /\ Goto(t, "record_call")
    /\ UNCHANGED <<now, calls, api_key, conversations, threads, recorded, appvars>>

\* mutant of RecordCall: the call to record_call left out
RecordCallForgotten(t) ==
    /\ pc[t] = "record_call"
    /\ Goto(t, "invoke")
    /\ UNCHANGED <<now, calls, api_key, conversations, threads, fr, recorded, appvars>>

\* line 146: self.rate_limiter.record_call()
RecordCall(t) ==
    /\ pc[t] = "record_call"
    /\ calls' = Append(calls, now)
    /\ recorded' = Append(recorded, now)
    /\ Set(t, [fr[t] EXCEPT !.records = @ + 1])
    /\ Goto(t, "invoke")
    /\ UNCHANGED <<now, api_key, conversations, threads, appvars>>

\* lines 149-158: start_time and the request to the backend
InvokeUpstream(t) ==
    /\ pc[t] = "invoke"
    /\ Set(t, [fr[t] EXCEPT !.start_time = now, !.invocations = @ + 1])
    /\ Goto(t, "await")
    /\ UNCHANGED <<now, calls, api_key, conversations, threads, recorded, appvars>>

\* the metadata of lines 166-176
Metadata(f, reply, end_time) ==
    [model |-> "gpt-3.5-turbo",
     context_type |-> f.context_type,
     temperature |-> f.temperature,
     max_tokens |-> f.max_tokens,
     response_time |-> end_time - f.start_time,
     tokens_used |-> reply.usage.total_tokens,
     prompt_tokens |-> reply.usage.prompt_tokens,
     completion_tokens |-> reply.usage.completion_tokens,
     timestamp |-> isoformat(end_time)]

\* the backend answers or fails; lines 160-180 on an answer
UpstreamResponds(t) ==
    /\ pc[t] = "await"
    /\ LET reply == fr[t].upstream[fr[t].invocations]
       IN  IF reply.kind = "error"
           THEN /\ Set(t, [fr[t] EXCEPT !.exc = reply.msg])
                /\ Goto(t, "except")
           ELSE IF reply.content = None
           THEN /\ Set(t, [fr[t] EXCEPT !.exc = NoneStripMsg])
                /\ Goto(t, "except")
           ELSE /\ Set(t, [fr[t] EXCEPT !.outcome =
                        Returned(strip(reply.content), Metadata(fr[t], reply, now))])
                /\ Goto(t, "wrapper")
    /\ UNCHANGED <<now, calls, api_key, conversations, threads, recorded, appvars>>

\* lines 182-195: except Exception
ExceptHandler(t) ==
    /\ pc[t] = "except"
    /\ Set(t, [fr[t] EXCEPT !.outcome = ExceptClause(fr[t].exc)])
    /\ Goto(t, "wrapper")
    /\ UNCHANGED <<now, calls, api_key, conversations, threads, recorded, appvars>>

\* where wrapper() enters the decorated function (line 45: func(*args, **kwargs))
FuncEntry(f) == IF f.func = "get_ai_response" THEN "can_make_call" ELSE "operation"

\* mutant of WrapperStep: the same sleep after every failure, no backoff
WrapperStepFlatDelay(t) ==
    /\ pc[t] = "wrapper"
    /\ IF fr[t].outcome.kind = "return" \/ fr[t].attempt = max_retries - 1
       THEN /\ Set(t, [fr[t] EXCEPT !.result = fr[t].outcome])
            /\ Goto(t, "done")
       ELSE /\ Set(t, [fr[t] EXCEPT
                    !.slept = Append(@, delay),
                    !.wake = now + delay,
                    !.attempt = @ + 1,
                    !.max_tokens = None,
                    !.exc = None,
                    !.outcome = NoResult])
            /\ Goto(t, FuncEntry(fr[t]))
    /\ UNCHANGED <<now, calls, api_key, conversations, threads, recorded, appvars>>

\* retry_on_failure.wrapper, lines 43-51, on what the function body did
WrapperStep(t) ==
    /\ pc[t] = "wrapper"
    /\ IF fr[t].outcome.kind = "return"
       THEN /\ Set(t, [fr[t] EXCEPT !.result = fr[t].outcome])
            /\ Goto(t, "done")
       ELSE IF fr[t].attempt = max_retries - 1
       THEN /\ Set(t, [fr[t] EXCEPT !.result = fr[t].outcome])
            /\ Goto(t, "done")
       ELSE /\ Set(t, [fr[t] EXCEPT
                    !.slept = Append(@, delay * Pow2(fr[t].attempt)),
                    !.wake = now + delay * Pow2(fr[t].attempt),
                    !.attempt = @ + 1,
                    !.max_tokens = None,
                    !.exc = None,
                    !.outcome = NoResult])
            /\ Goto(t, FuncEntry(fr[t]))
    /\ UNCHANGED <<now, calls, api_key, conversations, threads, recorded, appvars>>

\* the caller has the result (or the exception) in hand
Return(t) ==
    /\ pc[t] = "done"
    /\ Set(t, IdleFrame)
    /\ Goto(t, "idle")
    /\ UNCHANGED <<now, calls, api_key, conversations, threads, recorded, appvars>>

\* A caller invokes some other function decorated with
\* retry_on_failure(max_retries=3, delay=1.0): behaviour[k] is what the k-th
\* run of its body does, return a value or raise.
CallDecorated(t, behaviour) ==
    /\ pc[t] = "idle"
    /\ Set(t, [IdleFrame EXCEPT !.func = "operation", !.upstream = behaviour])
    /\ Goto(t, "operation")
    /\ UNCHANGED <<now, calls, api_key, conversations, threads, recorded, appvars>>

\* line 45: one run of the decorated function's body, once the sleep of the
\* previous attempt (line 51) is over
OperationRuns(t) ==
    /\ pc[t] = "operation"
    /\ now >= fr[t].wake
    /\ Set(t, [fr[t] EXCEPT !.invocations = @ + 1,
                            !.outcome = fr[t].upstream[fr[t].attempt + 1]])
    /\ Goto(t, "wrapper")
    /\ UNCHANGED <<now, calls, api_key, conversations, threads, recorded, appvars>>

\* health_check, lines 296-300: the test request, sent without asking the
\* rate limiter and without recording it; probe is what the backend does
health_check(t, probe) ==
    /\ pc[t] = "idle"
    /\ Set(t, [IdleFrame EXCEPT !.func = "health_check",
                                !.upstream = <<probe>>,
                                !.invocations = 1])
    /\ Goto(t, "probe")
    /\ UNCHANGED <<now, calls, api_key, conversations, threads, recorded, appvars>>

\* the dict of lines 302-308
Healthy(remaining, timestamp) ==
    [status |-> "healthy", model |-> "gpt-3.5-turbo", api_accessible |-> TRUE,
     rate_limit_remaining |-> remaining, timestamp |-> timestamp]

\* the dict of lines 312-318
Unhealthy(e, timestamp) ==
    [status |-> "unhealthy", model |-> "gpt-3.5-turbo", api_accessible |-> FALSE,
     error |-> e, timestamp |-> timestamp]

\* lines 302-318: the request has returned or raised, and health_check
\* returns its dict; the budget is read off the log as it stands
health_check_returns(t) ==
    /\ pc[t] = "probe"
    /\ LET reply == fr[t].upstream[1]
       IN  Set(t, [fr[t] EXCEPT !.result =
                IF reply.kind = "error"
                THEN Unhealthy(reply.msg, isoformat(now))
                ELSE Healthy(max_calls - Len(calls), isoformat(now))])
    /\ Goto(t, "reported")
    /\ UNCHANGED <<now, calls, api_key, conversations, threads, recorded, appvars>>

\* the caller has the dict in hand
health_check_done(t) ==
    /\ pc[t] = "reported"
    /\ Set(t, IdleFrame)
    /\ Goto(t, "idle")
    /\ UNCHANGED <<now, calls, api_key, conversations, threads, recorded, appvars>>

\* time passes
Tick(horizon) ==
    /\ now < horizon
    /\ now' = now + 1
    /\ UNCHANGED <<calls, api_key, conversations, threads, pc, fr, recorded, appvars>>

\* create_conversation, lines 58-74
create_conversation(user_message, ai_response, user_id, conversation_id, session_id, message_type, metadata) ==
    /\ Len(conversations) < MaxTurns
    /\ conversations' = Append(conversations,
            ConversationDocument(user_message, ai_response, user_id, conversation_id,
                                 session_id, message_type, metadata))
    /\ UNCHANGED <<now, calls, api_key, threads, pc, fr, recorded, voicevars, cleanupvars, origvars>>

\* timedelta(days=days) on the model's clock, on which a day lasts DayLength
timedelta(days) == days * DayLength

\* a filter that also matches the documents written at the cutoff itself
ExpiredInclusive(doc, cutoff_date) == doc.timestamp <= cutoff_date

\* the filter {"timestamp": {"$lt": cutoff_date}}, line 261
Expired(doc, cutoff_date) == doc.timestamp < cutoff_date

\* what delete_many(filter) leaves in the collection
Remaining(cutoff_date) ==
    LET Kept(doc) == ~Expired(doc, cutoff_date) IN SelectSeq(conversations, Kept)

\* cleanup_old_conversations, lines 257-266: the expired documents are
\* deleted and counted; when delete_many raises, nothing is deleted and 0 is
\* returned
cleanup_old_conversations(days) ==
    /\ conversation_model # None
    /\ LET cutoff_date == now - timedelta(days) IN
        \/ /\ conversations' = Remaining(cutoff_date)
           /\ removed' = removed \cup {conversations[i] : i \in
                            {j \in DOMAIN conversations : Expired(conversations[j], cutoff_date)}}
           /\ deleted_count' = Len(conversations) - Len(Remaining(cutoff_date))
        \/ /\ deleted_count' = 0
           /\ UNCHANGED <<conversations, removed>>
    /\ UNCHANGED <<now, calls, api_key, threads, pc, fr, recorded,
                   ai_service, conversation_model, connected_clients, sessions, users,
                   flask_session, uuid_count, sockets, hpc, hfr, voicevars, origvars>>

(***************************************************************************)
(* main.py: the globals, flask.session and what a handler sends back.       *)
(***************************************************************************)
\* the Socket.IO connection ids (request.sid) of the run
Sids == {"c1", "c2"}

\* the key of the browser's cookie session in flask_session; a socket's
\* session is keyed by its sid and starts as a copy taken at connect
Http == "http"

EmptySession == [user_id |-> None, session_id |-> None]

\* limit=10 of the handlers' get_conversation_history calls
history_limit == 10

\* a getter that draws a new id whatever the session holds
get_user_id_fresh(sess, n) == "user_" \o ToString(n + 1)

\* get_user_id (main.py:198-202) on session sess after n uuid4() draws
get_user_id(sess, n) ==
    IF sess.user_id = None THEN "user_" \o ToString(n + 1) ELSE sess.user_id

\* get_session_id (main.py:204-208)
get_session_id(sess, n) ==
    IF sess.session_id = None THEN "session_" \o ToString(n + 1) ELSE sess.session_id

\* the number of uuid4() draws after a getter ran on a session holding value v
Drawn(v, n) == IF v = None THEN n + 1 ELSE n

\* return jsonify(body), status
HttpResponse(status, body) == [kind |-> "http", status |-> status, body |-> body]

\* flask_socketio.emit: to the client whose event is being handled
Emit(event, payload) == [kind |-> "emit", to |-> "client", event |-> event, payload |-> payload]

\* socketio.emit: to every connected client
Broadcast(event, payload) == [kind |-> "emit", to |-> "all", event |-> event, payload |-> payload]

KeyErrorMsg == "KeyError"

StoreErrorMsg == "ServerSelectionTimeoutError"

DuplicateKeyMsg == "DuplicateKeyError"

\* a handler thread's locals; answers is what it sent, logged what it wrote
\* with logger.error, trace the calls it made on the store and the services
IdleHandler ==
    [handler |-> "-", client_id |-> None, data_message |-> None,
     user_message |-> None, conversation_id |-> None, context_type |-> None,
     user_id |-> None, session_id |-> None, conversation_history |-> <<>>,
     ai_response |-> None, metadata |-> EmptyMap, client_info |-> EmptyMap,
     suggestions |-> <<>>, exc |-> None,
     answers |-> <<>>, logged |-> <<>>, trace |-> <<>>,
     generation |-> IdleFrame]     \* the locals get_ai_response ended with

\* the session a handler's flask.session is: the cookie's for an HTTP
\* request, the socket's own for a Socket.IO event
SessionKey(f) == IF f.handler = "chat" THEN Http ELSE f.client_id

HSet(t, f) == hfr' = [hfr EXCEPT ![t] = f]

HGoto(t, label) == hpc' = [hpc EXCEPT ![t] = label]

\* the state of services/ai_service.py and of the conversations collection
svcvars == <<now, calls, api_key, conversations, threads, pc, fr, recorded>>

\* mutant of ExceptAnswer: nothing is sent
ExceptAnswerSilent(handler) == <<>>

\* what the `except Exception` clause of each handler sends (main.py:322-324,
\* 617-619, 189-190, 532-534, 552-553)
ExceptAnswer(handler) ==
    IF handler = "chat" THEN <<HttpResponse(500, [error |-> "Internal server error"])>>
    ELSE IF handler = "send_message" THEN <<Emit("error", [message |-> "Error processing message"])>>
    ELSE IF handler = "connect" THEN <<Emit("error", [message |-> "Connection error"])>>
    ELSE <<>>

ExceptLog(handler, e) ==
    IF handler = "chat" THEN "Error in chat endpoint: " \o e
    ELSE IF handler = "send_message" THEN "Error handling socket message: " \o e
    ELSE IF handler = "connect" THEN "Error handling connection: " \o e
    ELSE IF handler = "disconnect" THEN "Error handling disconnection: " \o e
    ELSE "Error handling voice input: " \o e

\* the except clause of the handler thread t is in
HandlerExcept(t) ==
    /\ hpc[t] = "except"
    /\ HSet(t, [hfr[t] EXCEPT
            !.answers = @ \o ExceptAnswer(hfr[t].handler),
            !.logged = Append(@, ExceptLog(hfr[t].handler, hfr[t].exc))])
    /\ HGoto(t, "finished")
    /\ UNCHANGED <<svcvars, voicevars, cleanupvars, origvars, ai_service, conversation_model, connected_clients, sessions,
                   users, flask_session, uuid_count, sockets>>

\* the handler has returned; the thread is free for the next request
HandlerEnds(t) ==
    /\ hpc[t] = "finished"
    /\ HSet(t, IdleHandler)
    /\ HGoto(t, "idle")
    /\ UNCHANGED <<svcvars, voicevars, cleanupvars, origvars, ai_service, conversation_model, connected_clients, sessions,
                   users, flask_session, uuid_count, sockets>>

(***************************************************************************)
(* ConversationModel: users and sessions (models/conversation.py:204-255).  *)
(***************************************************************************)
\* update_one({"user_id": user_id}, {"$set": ...}, upsert=True)
update_user_activity(user_id) ==
    users' = [u \in DOMAIN users \cup {user_id} |->
                IF u = user_id
                THEN [user_id |-> user_id, last_active |-> now, updated_at |-> now]
                ELSE users[u]]

\* the document create_session inserts
SessionDocument(user_id, session_id, metadata) ==
    [_id |-> Len(sessions) + 1, session_id |-> session_id, user_id |-> user_id,
     metadata |-> metadata, created_at |-> now, updated_at |-> now, is_active |-> TRUE]

\* mutant of DuplicateKey: no unique index on session_id
DuplicateKeyUnchecked(session_id) == FALSE

\* the unique index on sessions.session_id (conversation.py:41) refuses an insert
DuplicateKey(session_id) == \E i \in DOMAIN sessions : sessions[i].session_id = session_id

\* insert_one of create_session, when the index accepts the document
create_session(user_id, session_id, metadata) ==
    sessions' = Append(sessions, SessionDocument(user_id, session_id, metadata))

\* the $set of end_session applied to one document
Ended(doc) ==
    [k \in DOMAIN doc \cup {"ended_at"} |->
        IF k = "is_active" THEN FALSE
        ELSE IF k \in {"ended_at", "updated_at"} THEN now
        ELSE doc[k]]

\* update_one({"session_id": session_id}, {"$set": ...}): the matching
\* document, if there is one, is rewritten; nothing is inserted otherwise
end_session(session_id) ==
    LET matching == {i \in DOMAIN sessions : sessions[i].session_id = session_id}
    IN  sessions' = [i \in DOMAIN sessions |->
                        IF i \in matching /\ \A j \in matching : i <= j
                        THEN Ended(sessions[i]) ELSE sessions[i]]

(***************************************************************************)
(* main.py: the three entry paths of a turn, one action per step.           *)
(*   chat                  POST /api/chat          (main.py:253-324)        *)
(*   handle_socket_message Socket.IO send_message  (main.py:555-619)        *)
(*   handle_voice_input    recognized speech       (main.py:145-190)        *)
(***************************************************************************)
\* mutant of ChatRequest: the test of the message left out
ChatRequestUnchecked(t, message) ==
    /\ hpc[t] = "idle"
    /\ LET f == [IdleHandler EXCEPT !.handler = "chat", !.data_message = message,
                                    !.user_message = strip(message),
                                    !.context_type = "default"]
       IN  IF ai_service = None
           THEN /\ HSet(t, [f EXCEPT !.answers =
                        <<HttpResponse(503, [error |-> "AI service not available"])>>])
                /\ HGoto(t, "finished")
           ELSE /\ HSet(t, f)
                /\ HGoto(t, "get_ids")
    /\ UNCHANGED <<svcvars, voicevars, cleanupvars, origvars, ai_service, conversation_model, connected_clients, sessions,
                   users, flask_session, uuid_count, sockets>>

\* chat, lines 256-266: the body is read and the request may be refused
ChatRequest(t, message) ==
    /\ hpc[t] = "idle"
    /\ LET f == [IdleHandler EXCEPT !.handler = "chat", !.data_message = message,
                                    !.user_message = strip(message),
                                    !.context_type = "default"]
       IN  IF ~Truthy(f.user_message)
           THEN /\ HSet(t, [f EXCEPT !.answers =
                        <<HttpResponse(400, [error |-> "Message is required"])>>])
                /\ HGoto(t, "finished")
           ELSE IF ai_service = None
           THEN /\ HSet(t, [f EXCEPT !.answers =
                        <<HttpResponse(503, [error |-> "AI service not available"])>>])
                /\ HGoto(t, "finished")
           ELSE /\ HSet(t, f)
                /\ HGoto(t, "get_ids")
    /\ UNCHANGED <<svcvars, voicevars, cleanupvars, origvars, ai_service, conversation_model, connected_clients, sessions,
                   users, flask_session, uuid_count, sockets>>

\* handle_socket_message, lines 559-562: a message of a connected client
\* arrives and the handler tests `client_id in connected_clients`
SocketMessage(t, c, message) ==
    /\ hpc[t] = "idle"
    /\ sockets[c] = "connected"
    /\ HSet(t, [IdleHandler EXCEPT !.handler = "send_message", !.client_id = c,
                                   !.data_message = message])
    /\ HGoto(t, IF c \in DOMAIN connected_clients THEN "last_activity" ELSE "validate")
    /\ UNCHANGED <<svcvars, voicevars, cleanupvars, origvars, ai_service, conversation_model, connected_clients, sessions,
                   users, flask_session, uuid_count, sockets>>

\* line 563: connected_clients[client_id]["last_activity"] = ...; the
\* subscript raises KeyError when the entry is gone
SocketLastActivity(t) ==
    /\ hpc[t] = "last_activity"
    /\ IF hfr[t].client_id \in DOMAIN connected_clients
       THEN /\ connected_clients' =
                    [connected_clients EXCEPT ![hfr[t].client_id].last_activity = isoformat(now)]
            /\ HGoto(t, "validate")
            /\ UNCHANGED hfr
       ELSE /\ HSet(t, [hfr[t] EXCEPT !.exc = KeyErrorMsg])
            /\ HGoto(t, "except")
            /\ UNCHANGED connected_clients
    /\ UNCHANGED <<svcvars, voicevars, cleanupvars, origvars, ai_service, conversation_model, sessions,
                   users, flask_session, uuid_count, sockets>>

\* lines 565-575: the message is read and may be refused
SocketValidate(t) ==
    /\ hpc[t] = "validate"
    /\ LET f == [hfr[t] EXCEPT !.user_message = strip(hfr[t].data_message),
                               !.context_type = "realtime"]
       IN  IF ~Truthy(f.user_message)
           THEN /\ HSet(t, [f EXCEPT !.answers =
                        Append(@, Emit("error", [message |-> "Message is required"]))])
                /\ HGoto(t, "finished")
           ELSE IF ai_service = None
           THEN /\ HSet(t, [f EXCEPT !.answers =
                        Append(@, Emit("error", [message |-> "AI service not available"]))])
                /\ HGoto(t, "finished")
           ELSE /\ HSet(t, f)
                /\ HGoto(t, "get_ids")
    /\ UNCHANGED <<svcvars, voicevars, cleanupvars, origvars, ai_service, conversation_model, connected_clients, sessions,
                   users, flask_session, uuid_count, sockets>>

\* handle_voice_input, lines 149-154
VoiceInput(t, text) ==
    /\ hpc[t] = "idle"
    /\ LET f == [IdleHandler EXCEPT
                    !.handler = "voice", !.data_message = text, !.user_message = text,
                    !.context_type = "voice",
                    !.answers = <<Broadcast("voice_input_received", [text |-> text])>>]
       IN  IF ai_service # None
           THEN /\ HSet(t, [f EXCEPT !.user_id = "voice_user"])
                /\ HGoto(t, "get_history")
           ELSE /\ HSet(t, f)
                /\ HGoto(t, "finished")
    /\ UNCHANGED <<svcvars, voicevars, cleanupvars, origvars, ai_service, conversation_model, connected_clients, sessions,
                   users, flask_session, uuid_count, sockets>>

\* get_user_id() and get_session_id() (chat 269-270, handle_socket_message 578-579)
ResolveIds(t) ==
    /\ hpc[t] = "get_ids"
    /\ LET key == SessionKey(hfr[t])
           sess == flask_session[key]
           user_id == get_user_id(sess, uuid_count)
           n == Drawn(sess.user_id, uuid_count)
           session_id == get_session_id(sess, n)
       IN  /\ flask_session' = [flask_session EXCEPT
                                    ![key] = [user_id |-> user_id, session_id |-> session_id]]
           /\ uuid_count' = Drawn(sess.session_id, n)
           /\ HSet(t, [hfr[t] EXCEPT !.user_id = user_id, !.session_id = session_id])
    /\ HGoto(t, IF hfr[t].handler = "chat" THEN "update_user_activity" ELSE "get_history")
    /\ UNCHANGED <<svcvars, voicevars, cleanupvars, origvars, ai_service, conversation_model, connected_clients, sessions,
                   users, sockets>>

\* chat, lines 272-274
TouchUser(t) ==
    /\ hpc[t] = "update_user_activity"
    /\ IF conversation_model # None
       THEN /\ update_user_activity(hfr[t].user_id)
            /\ HSet(t, [hfr[t] EXCEPT !.trace = Append(@, "update_user_activity")])
       ELSE UNCHANGED <<users, hfr>>
    /\ HGoto(t, "get_history")
    /\ UNCHANGED <<svcvars, voicevars, cleanupvars, origvars, ai_service, conversation_model, connected_clients, sessions,
                   flask_session, uuid_count, sockets>>

\* a history read whose store error reaches the handler
FetchHistoryRaising(t) ==
    /\ hpc[t] = "get_history"
    /\ IF conversation_model # None
       THEN \/ /\ \E h \in get_conversation_history(hfr[t].user_id, hfr[t].conversation_id,
                                                     None, history_limit, 0) :
                    HSet(t, [hfr[t] EXCEPT !.conversation_history = h,
                                           !.trace = Append(@, "get_conversation_history")])
               /\ HGoto(t, "get_ai_response")
            \/ /\ HSet(t, [hfr[t] EXCEPT !.exc = StoreErrorMsg,
                                         !.trace = Append(@, "get_conversation_history raised")])
               /\ HGoto(t, "except")
       ELSE /\ UNCHANGED hfr
            /\ HGoto(t, "get_ai_response")
    /\ UNCHANGED <<svcvars, voicevars, cleanupvars, origvars, ai_service, conversation_model, connected_clients, sessions,
                   users, flask_session, uuid_count, sockets>>

\* lines 276-283, 581-588 and 156-159: the history for the prompt; when the
\* find raises, get_conversation_history logs it and returns []
\* (conversation.py:115-117)
FetchHistory(t) ==
    /\ hpc[t] = "get_history"
    /\ IF conversation_model # None
       THEN \/ \E h \in get_conversation_history(hfr[t].user_id, hfr[t].conversation_id,
                                                 None, history_limit, 0) :
                    HSet(t, [hfr[t] EXCEPT !.conversation_history = h,
                                           !.trace = Append(@, "get_conversation_history")])
            \/ HSet(t, [hfr[t] EXCEPT !.conversation_history = <<>>,
                                      !.trace = Append(@, "get_conversation_history failed")])
       ELSE UNCHANGED hfr
    /\ HGoto(t, "get_ai_response")
    /\ UNCHANGED <<svcvars, voicevars, cleanupvars, origvars, ai_service, conversation_model, connected_clients, sessions,
                   users, flask_session, uuid_count, sockets>>

AlwaysTimesOut == [k \in 1..max_retries |-> Timeout]

\* the backends a turn of the handlers can meet
HandlerPlans == {AlwaysSucceeds, AlwaysTimesOut}

\* lines 286-290, 591-595 and 161-165: the call of ai_service.get_ai_response
InvokeGenerator(t) ==
    /\ hpc[t] = "get_ai_response"
    /\ \E p \in HandlerPlans :
        Call(t, hfr[t].user_message, hfr[t].conversation_history, hfr[t].context_type,
             p, conversation_model # None)

\* get_ai_response hands (ai_response, metadata) back, or its exception
GeneratorReturns(t) ==
    /\ hpc[t] = "get_ai_response"
    /\ pc[t] = "done"
    /\ IF fr[t].result.kind = "return"
       THEN /\ HSet(t, [hfr[t] EXCEPT !.ai_response = fr[t].result.text,
                                      !.metadata = fr[t].result.metadata,
                                      !.generation = fr[t],
                                      !.trace = Append(@, "get_ai_response")])
            /\ HGoto(t, "create_conversation")
       ELSE /\ HSet(t, [hfr[t] EXCEPT !.exc = fr[t].result.exc, !.generation = fr[t]])
            /\ HGoto(t, "except")
    /\ Set(t, IdleFrame)
    /\ Goto(t, "idle")
    /\ UNCHANGED <<now, calls, api_key, conversations, threads, recorded,
                   ai_service, conversation_model, connected_clients, sessions,
                   users, flask_session, uuid_count, sockets, voicevars, cleanupvars, origvars>>

\* message_type of the turn each handler stores
MessageType(handler) ==
    IF handler = "chat" THEN "text"
    ELSE IF handler = "send_message" THEN "realtime"
    ELSE "voice"

\* lines 292-302, 597-607 and 167-175: the turn is stored, whatever the
\* response is; create_conversation re-raises what insert_one raised
SaveTurn(t) ==
    /\ hpc[t] = "create_conversation"
    /\ IF conversation_model = None
       THEN /\ HGoto(t, "respond")
            /\ UNCHANGED <<svcvars, voicevars, cleanupvars, origvars, hfr>>
       ELSE \/ /\ create_conversation(hfr[t].user_message, hfr[t].ai_response,
                                      hfr[t].user_id, hfr[t].conversation_id,
                                      hfr[t].session_id, MessageType(hfr[t].handler),
                                      hfr[t].metadata)
               /\ HSet(t, [hfr[t] EXCEPT !.trace = Append(@, "create_conversation")])
               /\ HGoto(t, "respond")
            \/ /\ HSet(t, [hfr[t] EXCEPT !.exc = StoreErrorMsg,
                                         !.trace = Append(@, "create_conversation raised")])
               /\ HGoto(t, "except")
               /\ UNCHANGED <<svcvars, voicevars, cleanupvars, origvars>>
    /\ UNCHANGED <<ai_service, conversation_model, connected_clients, sessions,
                   users, flask_session, uuid_count, sockets>>

\* what get_suggested_responses can return (ai_service.py:262-290): up to
\* three suggestions of the backend, or [] when the request failed
SuggestedResponses == {<<"s1", "s2", "s3">>, <<>>}

\* the body of the 200 response of chat, lines 312-320
ChatBody(f, suggestions) ==
    [response |-> f.ai_response, timestamp |-> isoformat(now), type |-> "text",
     metadata |-> f.metadata, suggestions |-> suggestions,
     user_id |-> f.user_id, session_id |-> f.session_id]

\* the payload of ai_response, lines 610-615 and 178-183
AiResponsePayload(f) ==
    [text |-> f.ai_response, timestamp |-> isoformat(now),
     type |-> MessageType(f.handler), metadata |-> f.metadata]

\* lines 304-320, 609-615 and 177-187: the response goes out
Respond(t) ==
    /\ hpc[t] = "respond"
    /\ IF hfr[t].handler = "chat"
       THEN IF Len(hfr[t].conversation_history) > 0
            THEN \E s \in SuggestedResponses :
                    HSet(t, [hfr[t] EXCEPT
                        !.suggestions = s,
                        !.trace = Append(@, "get_suggested_responses"),
                        !.answers = Append(@, HttpResponse(200, ChatBody(hfr[t], s)))])
            ELSE HSet(t, [hfr[t] EXCEPT
                        !.answers = Append(@, HttpResponse(200, ChatBody(hfr[t], <<>>)))])
       ELSE IF hfr[t].handler = "send_message"
       THEN HSet(t, [hfr[t] EXCEPT
                        !.answers = Append(@, Emit("ai_response", AiResponsePayload(hfr[t])))])
       ELSE HSet(t, [hfr[t] EXCEPT
                        !.answers = Append(@, Broadcast("ai_response", AiResponsePayload(hfr[t]))),
                        !.trace = Append(@, "speak_text")])
    /\ HGoto(t, "finished")
    /\ UNCHANGED <<svcvars, voicevars, cleanupvars, origvars, ai_service, conversation_model, connected_clients, sessions,
                   users, flask_session, uuid_count, sockets>>

(***************************************************************************)
(* main.py: the connection registry (main.py:495-553).                      *)
(***************************************************************************)
\* the entry handle_connect stores, lines 504-509
ClientInfo(user_id, session_id) ==
    [user_id |-> user_id, session_id |-> session_id,
     connected_at |-> isoformat(now), last_activity |-> isoformat(now)]

\* the payload of `connected`, lines 521-530
ConnectedPayload(user_id, session_id) ==
    [status |-> "Connected to ZYEON AI Enhanced", user_id |-> user_id,
     session_id |-> session_id,
     features |-> [voice_available |-> TRUE,
                   ai_available |-> ai_service # None,
                   history_available |-> conversation_model # None]]

\* handle_connect, lines 498-530, up to the emit or the raise of
\* create_session.  The socket's session is the cookie's as it was at connect.
HandleConnect(t, c) ==
    /\ hpc[t] = "idle"
    /\ sockets[c] = "new"
    /\ sockets' = [sockets EXCEPT ![c] = "connected"]
    /\ LET sess == flask_session[Http]
           user_id == get_user_id(sess, uuid_count)
           n == Drawn(sess.user_id, uuid_count)
           session_id == get_session_id(sess, n)
           f == [IdleHandler EXCEPT !.handler = "connect", !.client_id = c,
                                    !.user_id = user_id, !.session_id = session_id]
       IN  /\ flask_session' = [flask_session EXCEPT
                                    ![c] = [user_id |-> user_id, session_id |-> session_id]]
           /\ uuid_count' = Drawn(sess.session_id, n)
           /\ connected_clients' =
                    [k \in DOMAIN connected_clients \cup {c} |->
                        IF k = c THEN ClientInfo(user_id, session_id)
                        ELSE connected_clients[k]]
           /\ IF conversation_model = None
              THEN /\ HSet(t, [f EXCEPT !.answers =
                            <<Emit("connected", ConnectedPayload(user_id, session_id))>>])
                   /\ HGoto(t, "finished")
                   /\ UNCHANGED sessions
              ELSE IF DuplicateKey(session_id)
              THEN /\ HSet(t, [f EXCEPT !.exc = DuplicateKeyMsg,
                                        !.trace = <<"create_session raised">>])
                   /\ HGoto(t, "except")
                   /\ UNCHANGED sessions
              ELSE /\ create_session(user_id, session_id, [client_id |-> c])
                   /\ HSet(t, [f EXCEPT
                            !.trace = <<"create_session">>,
                            !.answers =
                                <<Emit("connected", ConnectedPayload(user_id, session_id))>>])
                   /\ HGoto(t, "finished")
    /\ UNCHANGED <<svcvars, voicevars, cleanupvars, origvars, ai_service, conversation_model, users>>

\* handle_disconnect, lines 540-543: the membership test and the lookup
HandleDisconnect(t, c) ==
    /\ hpc[t] = "idle"
    /\ sockets[c] \in {"new", "connected"}
    /\ IF c \in DOMAIN connected_clients
       THEN /\ HSet(t, [IdleHandler EXCEPT !.handler = "disconnect", !.client_id = c,
                                           !.client_info = connected_clients[c]])
            /\ HGoto(t, "end_session")
            /\ sockets' = [sockets EXCEPT ![c] = "closing"]
       ELSE /\ HSet(t, [IdleHandler EXCEPT !.handler = "disconnect", !.client_id = c])
            /\ HGoto(t, "finished")
            /\ sockets' = [sockets EXCEPT ![c] = "closed"]
    /\ UNCHANGED <<svcvars, voicevars, cleanupvars, origvars, ai_service, conversation_model, connected_clients, sessions,
                   users, flask_session, uuid_count>>

\* lines 546-547
DisconnectEndSession(t) ==
    /\ hpc[t] = "end_session"
    /\ IF conversation_model # None
       THEN /\ end_session(hfr[t].client_info.session_id)
            /\ HSet(t, [hfr[t] EXCEPT !.trace = Append(@, "end_session")])
       ELSE UNCHANGED <<sessions, hfr>>
    /\ HGoto(t, "del")
    /\ UNCHANGED <<svcvars, voicevars, cleanupvars, origvars, ai_service, conversation_model, connected_clients,
                   users, flask_session, uuid_count, sockets>>

\* mutant of DisconnectDel: the entry is left in the registry
DisconnectDelForgotten(t) ==
    /\ hpc[t] = "del"
    /\ HGoto(t, "finished")
    /\ sockets' = [sockets EXCEPT ![hfr[t].client_id] = "closed"]
    /\ UNCHANGED <<svcvars, voicevars, cleanupvars, origvars, ai_service, conversation_model, connected_clients, sessions,
                   users, flask_session, uuid_count, hfr>>

\* line 549: del connected_clients[client_id]
DisconnectDel(t) ==
    /\ hpc[t] = "del"
    /\ IF hfr[t].client_id \in DOMAIN connected_clients
       THEN /\ connected_clients' =
                    [k \in DOMAIN connected_clients \ {hfr[t].client_id} |->
                        connected_clients[k]]
            /\ HGoto(t, "finished")
            /\ UNCHANGED hfr
       ELSE /\ HSet(t, [hfr[t] EXCEPT !.exc = KeyErrorMsg])
            /\ HGoto(t, "except")
            /\ UNCHANGED connected_clients
    /\ sockets' = [sockets EXCEPT ![hfr[t].client_id] = "closed"]
    /\ UNCHANGED <<svcvars, voicevars, cleanupvars, origvars, ai_service, conversation_model, sessions,
                   users, flask_session, uuid_count>>

(***************************************************************************)
(* services/voice_service.py: the voice bridge.  Its public methods are    *)
(* called from request threads (the voice callers); the listening loop,    *)
(* the recognition of one phrase and the synthesis of one utterance each   *)
(* run in a daemon thread of their own.  No lock protects the fields.      *)
(***************************************************************************)
VoiceCallers == {"v1", "v2"}

Callbacks == {"on_speech_recognized", "on_speech_error", "on_listening_started",
              "on_listening_stopped", "on_speaking_started", "on_speaking_finished"}

\* __init__, lines 19-49, after _initialize_tts and
\* _initialize_speech_recognition (lines 51-102): recognizer and microphone
\* are both there or both None, the engine is there or None; voice_thread
\* is the position of the thread in listen_threads, NoThread for None
NoThread == 0

VoiceService(capture, tts, callbacks) ==
    [is_listening |-> FALSE, is_speaking |-> FALSE, voice_thread |-> NoThread,
     recognizer |-> capture, microphone |-> capture, tts_engine |-> tts,
     callbacks |-> callbacks]

\* the locals of a public method and what it did (fired and exc are history;
\* loops is the number of loops started before a stop_listening that has not
\* returned yet); result is the value the last finished call returned
IdleCaller ==
    [method |-> None, result |-> FALSE, fired |-> {}, loops |-> 0,
     exc |-> None, text |-> None, interrupt_current |-> FALSE]

NewCaller(method) == [IdleCaller EXCEPT !.method = method]

VSet(v, f) == vfr' = [vfr EXCEPT ![v] = f]
VGoto(v, label) == vpc' = [vpc EXCEPT ![v] = label]

\* everything but the voice bridge
nonvoice == <<now, calls, api_key, conversations, threads, pc, fr, recorded,
              ai_service, conversation_model, connected_clients, sessions, users,
              flask_session, uuid_count, sockets, hpc, hfr, cleanupvars, origvars>>

\* `if self.on_x: self.on_x(...)`: what calling a callback can do
Fire(cb) ==
    IF cb \in voice_service.callbacks THEN {"returned", "raised"} ELSE {"unset"}

CallbackErrorMsg == "callback failed"

\* a thread object that was started and has not finished
is_alive(thread) == thread.pc # "done"

\* a _listen_loop thread right after Thread.start()
ListenThread == [pc |-> "while"]

\* start_listening without the test of lines 141-143
start_listening_unchecked(v) ==
    /\ vpc[v] = "idle"
    /\ Len(listen_threads) + Cardinality({w \in VoiceCallers : vpc[w] = "start_thread"}) < MaxLoops
    /\ IF voice_service.is_listening
       THEN /\ VSet(v, [NewCaller("start_listening") EXCEPT !.result = TRUE])
            /\ VGoto(v, "idle")
       ELSE /\ VSet(v, NewCaller("start_listening"))
            /\ VGoto(v, "start_thread")
    /\ UNCHANGED <<nonvoice, voice_service, listen_threads, audio_threads, speech_threads>>

\* start_listening, lines 139-147: the two early returns
start_listening(v) ==
    /\ vpc[v] = "idle"
    /\ Len(listen_threads) + Cardinality({w \in VoiceCallers : vpc[w] = "start_thread"}) < MaxLoops
    /\ IF ~voice_service.recognizer \/ ~voice_service.microphone
       THEN /\ VSet(v, [NewCaller("start_listening") EXCEPT !.result = FALSE])
            /\ VGoto(v, "idle")
       ELSE IF voice_service.is_listening
       THEN /\ VSet(v, [NewCaller("start_listening") EXCEPT !.result = TRUE])
            /\ VGoto(v, "idle")
       ELSE /\ VSet(v, NewCaller("start_listening"))
            /\ VGoto(v, "start_thread")
    /\ UNCHANGED <<nonvoice, voice_service, listen_threads, audio_threads, speech_threads>>

\* lines 150-152: the flag is set and the loop thread is started
start_listening_thread(v) ==
    /\ vpc[v] = "start_thread"
    /\ listen_threads' = Append(listen_threads, ListenThread)
    /\ voice_service' = [voice_service EXCEPT !.is_listening = TRUE,
                                              !.voice_thread = Len(listen_threads) + 1]
    /\ VGoto(v, "started_callback")
    /\ UNCHANGED <<nonvoice, audio_threads, speech_threads, vfr>>

\* lines 154-163: the callback, the return, and the except clause
start_listening_callback(v) ==
    /\ vpc[v] = "started_callback"
    /\ \E outcome \in Fire("on_listening_started") :
        /\ IF outcome = "raised"
           THEN /\ voice_service' = [voice_service EXCEPT !.is_listening = FALSE]
                /\ VSet(v, [vfr[v] EXCEPT !.fired = @ \cup {"on_listening_started"},
                                          !.exc = CallbackErrorMsg, !.result = FALSE])
           ELSE /\ VSet(v, [vfr[v] EXCEPT
                                !.fired = IF outcome = "unset" THEN @
                                          ELSE @ \cup {"on_listening_started"},
                                !.result = TRUE])
                /\ UNCHANGED voice_service
    /\ VGoto(v, "idle")
    /\ UNCHANGED <<nonvoice, listen_threads, audio_threads, speech_threads>>

\* stop_listening, line 168
stop_listening(v) ==
    /\ vpc[v] = "idle"
    /\ voice_service' = [voice_service EXCEPT !.is_listening = FALSE]
    /\ VSet(v, [NewCaller("stop_listening") EXCEPT !.loops = Len(listen_threads)])
    /\ VGoto(v, "join")
    /\ UNCHANGED <<nonvoice, listen_threads, audio_threads, speech_threads>>

\* recognizer.listen(source, timeout=5, ...) at line 192 can block longer
\* than voice_thread.join(timeout=2) at line 171 waits
JoinCanTimeOut == join_timeout < recognition_timeout

\* lines 170-171: join(timeout=2) returns when the thread has finished or
\* when the timeout has passed, which happens while the loop is blocked in
\* audio capture
stop_listening_join(v) ==
    /\ vpc[v] = "join"
    /\ LET thread == voice_service.voice_thread IN
        IF thread = NoThread THEN TRUE
        ELSE \/ ~is_alive(listen_threads[thread])
             \/ listen_threads[thread].pc = "listen" /\ JoinCanTimeOut
    /\ VGoto(v, "stopped_callback")
    /\ UNCHANGED <<nonvoice, voice_service, listen_threads, audio_threads, speech_threads, vfr>>

\* lines 173-181: the callback, the return, and the except clause
stop_listening_callback(v) ==
    /\ vpc[v] = "stopped_callback"
    /\ \E outcome \in Fire("on_listening_stopped") :
        IF outcome = "raised"
        THEN VSet(v, [vfr[v] EXCEPT !.fired = @ \cup {"on_listening_stopped"},
                                    !.exc = CallbackErrorMsg, !.result = FALSE,
                                    !.loops = 0])
        ELSE VSet(v, [vfr[v] EXCEPT
                            !.fired = IF outcome = "unset" THEN @
                                      ELSE @ \cup {"on_listening_stopped"},
                            !.result = TRUE, !.loops = 0])
    /\ VGoto(v, "idle")
    /\ UNCHANGED <<nonvoice, voice_service, listen_threads, audio_threads, speech_threads>>
\* what recognize_google raises when the audio is not understood
UnknownValueError == "UnknownValueError"

\* what recognize_google makes of a captured phrase
RecognizedText == "hello"

\* a _process_audio thread right after Thread.start(); heard is the text
\* recognize_google returned and fired the callbacks the thread called
AudioThread ==
    [pc |-> "recognize", heard |-> None, fired |-> {},
     raised |-> {}, reported |-> {}, escaped |-> FALSE]

\* _listen_loop, line 188: while self.is_listening
listen_loop_while(i) ==
    /\ listen_threads[i].pc = "while"
    /\ listen_threads' = [listen_threads EXCEPT
            ![i].pc = IF voice_service.is_listening THEN "listen" ELSE "finally"]
    /\ UNCHANGED <<nonvoice, voice_service, audio_threads, speech_threads, vpc, vfr>>

\* lines 189-207: a phrase is captured and handed to a _process_audio thread,
\* or listen raises and the inner except clause writes a debug line.  (The
\* outer except clause, lines 209-212, is not reachable: every statement of
\* the loop body is inside the inner try.)
listen_loop_listen(i) ==
    /\ listen_threads[i].pc = "listen"
    /\ \/ /\ Len(audio_threads) < MaxAudio
          /\ audio_threads' = Append(audio_threads, AudioThread)
          /\ listen_threads' = [listen_threads EXCEPT ![i].pc = "while"]
       \/ /\ listen_threads' = [listen_threads EXCEPT ![i].pc = "while"]
          /\ UNCHANGED audio_threads
    /\ UNCHANGED <<nonvoice, voice_service, speech_threads, vpc, vfr>>

\* lines 213-214: finally: self.is_listening = False
listen_loop_finally(i) ==
    /\ listen_threads[i].pc = "finally"
    /\ voice_service' = [voice_service EXCEPT !.is_listening = FALSE]
    /\ listen_threads' = [listen_threads EXCEPT ![i].pc = "done"]
    /\ UNCHANGED <<nonvoice, audio_threads, speech_threads, vpc, vfr>>

\* the except clause of _process_audio, lines 226-229: the error goes to
\* on_speech_error when it is set; what that callback raises leaves the thread
ProcessAudioExcept(thread, e, outcome) ==
    [thread EXCEPT !.pc = "done",
                   !.raised = @ \cup {e},
                   !.reported = IF outcome = "unset" THEN @ ELSE @ \cup {e},
                   !.escaped = (outcome = "raised")]

\* the thread has the text and has called on_speech_recognized if it is set
Recognized(thread, outcome) ==
    [thread EXCEPT !.heard = RecognizedText,
                   !.fired = IF outcome = "unset" THEN @
                             ELSE @ \cup {"on_speech_recognized"}]

\* mutant of process_audio: the recognized text is logged and dropped
process_audio_silent(a) ==
    /\ audio_threads[a].pc = "recognize"
    /\ \/ audio_threads' = [audio_threads EXCEPT ![a].pc = "done",
                                                 ![a].heard = RecognizedText]
       \/ \E reporting \in Fire("on_speech_error") :
            audio_threads' = [audio_threads EXCEPT ![a] =
                ProcessAudioExcept(@, UnknownValueError, reporting)]
    /\ UNCHANGED <<nonvoice, voice_service, listen_threads, speech_threads, vpc, vfr>>

\* _process_audio, lines 216-229
process_audio(a) ==
    /\ audio_threads[a].pc = "recognize"
    /\ \/ \E outcome \in Fire("on_speech_recognized") :
            IF outcome = "raised"
            THEN \E reporting \in Fire("on_speech_error") :
                    audio_threads' = [audio_threads EXCEPT ![a] =
                        ProcessAudioExcept(Recognized(@, outcome), CallbackErrorMsg, reporting)]
            ELSE audio_threads' = [audio_threads EXCEPT ![a] =
                        [Recognized(@, outcome) EXCEPT !.pc = "done"]]
       \/ \E reporting \in Fire("on_speech_error") :
            audio_threads' = [audio_threads EXCEPT ![a] =
                ProcessAudioExcept(@, UnknownValueError, reporting)]
    /\ UNCHANGED <<nonvoice, voice_service, listen_threads, speech_threads, vpc, vfr>>

\* what tts_engine.say / runAndWait raise when the engine fails
EngineErrorMsg == "run loop already started"

\* a _speak_text_thread thread right after Thread.start(); interrupting says
\* that the speak_text call that started it stopped an utterance first, and
\* fired lists the callbacks the thread has called
SpeechThread(text, interrupting) ==
    [pc |-> "begin", text |-> text, interrupting |-> interrupting, cancelled |-> FALSE,
     fired |-> <<>>, raised |-> {}, reported |-> {}, escaped |-> FALSE]

\* `if self.on_x: self.on_x(...)` in a synthesis thread
Called(thread, cb, outcome) ==
    [thread EXCEPT !.fired = IF outcome = "unset" THEN @ ELSE Append(@, cb)]

\* tts_engine.stop(): the utterances being played end, runAndWait returns
EngineStop(utterances) ==
    [i \in DOMAIN utterances |->
        IF utterances[i].pc = "speaking"
        THEN [utterances[i] EXCEPT !.cancelled = TRUE]
        ELSE utterances[i]]

\* speak_text, lines 231-258; `if interrupt_current and self.is_speaking:
\* self.stop_speaking()` (lines 243-244) is stop_speaking's lines 305-307
speak_text(v, text, interrupt_current) ==
    /\ vpc[v] = "idle"
    /\ Len(speech_threads) < MaxUtterances
    /\ LET f == [NewCaller("speak_text") EXCEPT !.text = text,
                                                !.interrupt_current = interrupt_current]
           stops == interrupt_current /\ voice_service.is_speaking
       IN
        IF ~voice_service.tts_engine \/ ~Truthy(text) \/ ~Truthy(strip(text))
        THEN /\ VSet(v, [f EXCEPT !.result = FALSE])
             /\ UNCHANGED <<voice_service, speech_threads>>
        ELSE /\ voice_service' = [voice_service EXCEPT
                                    !.is_speaking = IF stops THEN FALSE ELSE @]
             /\ speech_threads' =
                    Append(IF stops THEN EngineStop(speech_threads) ELSE speech_threads,
                           SpeechThread(strip(text), stops))
             /\ VSet(v, [f EXCEPT !.result = TRUE])
    /\ VGoto(v, "idle")
    /\ UNCHANGED <<nonvoice, listen_threads, audio_threads>>

\* stop_speaking, lines 302-313
stop_speaking(v) ==
    /\ vpc[v] = "idle"
    /\ IF voice_service.tts_engine /\ voice_service.is_speaking
       THEN /\ speech_threads' = EngineStop(speech_threads)
            /\ voice_service' = [voice_service EXCEPT !.is_speaking = FALSE]
            /\ VSet(v, [NewCaller("stop_speaking") EXCEPT !.result = TRUE])
       ELSE /\ VSet(v, [NewCaller("stop_speaking") EXCEPT !.result = FALSE])
            /\ UNCHANGED <<voice_service, speech_threads>>
    /\ VGoto(v, "idle")
    /\ UNCHANGED <<nonvoice, listen_threads, audio_threads>>

\* _speak_text_thread, lines 263-266: the flag and the started callback;
\* what the callback raises goes to the except clause, which only logs it
speak_text_thread_begin(i) ==
    /\ speech_threads[i].pc = "begin"
    /\ voice_service' = [voice_service EXCEPT !.is_speaking = TRUE]
    /\ \E outcome \in Fire("on_speaking_started") :
        speech_threads' = [speech_threads EXCEPT ![i] =
            IF outcome = "raised"
            THEN [Called(@, "on_speaking_started", outcome) EXCEPT
                        !.pc = "finally", !.raised = @ \cup {CallbackErrorMsg}]
            ELSE [Called(@, "on_speaking_started", outcome) EXCEPT !.pc = "speaking"]]
    /\ UNCHANGED <<nonvoice, listen_threads, audio_threads, vpc, vfr>>

\* mutant of speak_text_thread_say: no finally block after a failed say
speak_text_thread_say_dies(i) ==
    /\ speech_threads[i].pc = "speaking"
    /\ \/ speech_threads' = [speech_threads EXCEPT ![i].pc = "finally"]
       \/ /\ ~speech_threads[i].cancelled
          /\ speech_threads' = [speech_threads EXCEPT
                                    ![i].pc = "done",
                                    ![i].raised = @ \cup {EngineErrorMsg}]
    /\ UNCHANGED <<nonvoice, voice_service, listen_threads, audio_threads, vpc, vfr>>

\* lines 269-275: say and runAndWait return when the utterance has been
\* played or stopped, or raise; the except clause only logs the error
speak_text_thread_say(i) ==
    /\ speech_threads[i].pc = "speaking"
    /\ \/ speech_threads' = [speech_threads EXCEPT ![i].pc = "finally"]
       \/ /\ ~speech_threads[i].cancelled
          /\ speech_threads' = [speech_threads EXCEPT
                                    ![i].pc = "finally",
                                    ![i].raised = @ \cup {EngineErrorMsg}]
    /\ UNCHANGED <<nonvoice, voice_service, listen_threads, audio_threads, vpc, vfr>>

\* mutant of speak_text_thread_finally: the flag is not cleared and
\* listening is switched off
speak_text_thread_finally_mute(i) ==
    /\ speech_threads[i].pc = "finally"
    /\ voice_service' = [voice_service EXCEPT !.is_listening = FALSE]
    /\ \E outcome \in Fire("on_speaking_finished") :
        speech_threads' = [speech_threads EXCEPT ![i] =
            [Called(@, "on_speaking_finished", outcome) EXCEPT
                    !.pc = "done", !.escaped = (outcome = "raised")]]
    /\ UNCHANGED <<nonvoice, listen_threads, audio_threads, vpc, vfr>>

\* lines 276-279: finally: the flag is cleared and the finished callback is
\* called; what it raises leaves the thread
speak_text_thread_finally(i) ==
    /\ speech_threads[i].pc = "finally"
    /\ voice_service' = [voice_service EXCEPT !.is_speaking = FALSE]
    /\ \E outcome \in Fire("on_speaking_finished") :
        speech_threads' = [speech_threads EXCEPT ![i] =
            [Called(@, "on_speaking_finished", outcome) EXCEPT
                    !.pc = "done", !.escaped = (outcome = "raised")]]
    /\ UNCHANGED <<nonvoice, listen_threads, audio_threads, vpc, vfr>>

\* the voice bridge after construction and set_callbacks (lines 104-117)
InitVoice(captures, engines, callbacksets) ==
    /\ voice_service \in {VoiceService(c, e, cb) :
                            c \in captures, e \in engines, cb \in callbacksets}
    /\ listen_threads = <<>>
    /\ audio_threads = <<>>
    /\ speech_threads = <<>>
    /\ vpc = [v \in VoiceCallers |-> "idle"]
    /\ vfr = [v \in VoiceCallers |-> IdleCaller]

(***************************************************************************)
(* main_original.py: the first server.  One ZyeonAI object (line 204)       *)
(* answers every client of /api/chat (lines 222-244) and of send_message    *)
(* (lines 345-365); it keeps the conversation in memory.                    *)
(***************************************************************************)
\* the browsers that talk to the server
Browsers == {"b1", "b2"}

\* self.conversation_history[-10:], line 96
recent_messages == 10

\* ZyeonAI.system_prompt, lines 80-83
OriginalSystemPrompt == "You are ZYEON, an advanced AI assistant with a futuristic personality."

\* a request thread of a browser that is not inside get_ai_response
NoRequest == [user_input |-> None, messages |-> <<>>, authors |-> <<>>]

\* ZyeonAI() (lines 77-83) and the server's request threads.  authors is a
\* history variable: the browser whose turn each entry of
\* conversation_history belongs to; a request keeps the messages it sent
\* and the authors of the entries among them
ZyeonAI ==
    [conversation_history |-> <<>>, authors |-> <<>>,
     requests |-> [b \in Browsers |-> NoRequest]]

Message(role, content) == [role |-> role, content |-> content]

\* lines 96-97: the entries that go into the prompt, and whose they are
OriginalContext(b) ==
    [messages |-> LastN(zyeon.conversation_history, recent_messages),
     authors |-> LastN(zyeon.authors, recent_messages)]

\* chat (lines 222-234) or handle_message (345-356) calls
\* zyeon.get_ai_response, which builds the prompt and sends it (lines 88-107)
original_get_ai_response(b, user_input) ==
    /\ zyeon.requests[b] = NoRequest
    /\ Len(zyeon.conversation_history) < 2 * MaxOriginalTurns
    /\ Truthy(api_key)
    /\ zyeon' = [zyeon EXCEPT !.requests[b] =
            [user_input |-> user_input,
             messages |-> <<Message("system", OriginalSystemPrompt)>>
                            \o OriginalContext(b).messages
                            \o <<Message("user", user_input)>>,
             authors |-> OriginalContext(b).authors]]
    /\ UNCHANGED <<svcvars, ai_service, conversation_model, connected_clients, sessions,
                   users, flask_session, uuid_count, sockets, hpc, hfr, voicevars, cleanupvars>>

\* lines 109-124: the reply is appended to the shared history with the
\* question, or the request raised and the apology is returned
original_get_ai_response_returns(b) ==
    /\ zyeon.requests[b] # NoRequest
    /\ \/ zyeon' = [zyeon EXCEPT
                !.conversation_history = @ \o
                    <<Message("user", zyeon.requests[b].user_input),
                      Message("assistant", strip(UpstreamOk.content))>>,
                !.authors = @ \o <<b, b>>,
                !.requests[b] = NoRequest]
       \/ zyeon' = [zyeon EXCEPT !.requests[b] = NoRequest]
    /\ UNCHANGED <<svcvars, ai_service, conversation_model, connected_clients, sessions,
                   users, flask_session, uuid_count, sockets, hpc, hfr, voicevars, cleanupvars>>

(***************************************************************************)
(* Inputs.                                                                  *)
(***************************************************************************)
UserInputs == {None, "", "  ", " hi "}

\* ai_service.py and the conversations collection after construction
InitService(ts, keys) ==
    /\ now = 0
    /\ calls = <<>>
    /\ api_key \in keys
    /\ conversations = <<>>
    /\ threads = ts
    /\ pc = [t \in AllThreads |-> "idle"]
    /\ fr = [t \in AllThreads |-> IdleFrame]
    /\ recorded = <<>>
    /\ deleted_count = None
    /\ removed = {}
    /\ zyeon = ZyeonAI

\* the cookie of a browser that POST /api/chat served before (the signed
\* cookie outlives the server process, the registry does not)
ReturningSession == [user_id |-> "user_1", session_id |-> "session_2"]

\* main.py after initialize_services (main.py:100-143): each service is there
\* or None by the environment; no client is connected
InitGlobals(services, stores, cookies) ==
    /\ ai_service \in services
    /\ conversation_model \in stores
    /\ connected_clients = EmptyMap
    /\ sessions = <<>>
    /\ flask_session \in {[k \in {Http} \cup Sids |-> IF k = Http THEN c ELSE EmptySession] :
                            c \in cookies}
    /\ uuid_count = (IF flask_session[Http] = EmptySession THEN 0 ELSE 2)
    /\ users = (IF flask_session[Http] = EmptySession \/ conversation_model = None
                THEN EmptyMap
                ELSE [u \in {"user_1"} |->
                        [user_id |-> "user_1", last_active |-> 0, updated_at |-> 0]])
    /\ sockets = [c \in Sids |-> "new"]
    /\ hpc = [t \in AllThreads |-> "idle"]
    /\ hfr = [t \in AllThreads |-> IdleHandler]

\* main.py on a host without audio devices: the voice bridge is constructed
\* (line 128) with no recognizer, no microphone and no engine
InitMain(services, stores, cookies) ==
    /\ InitGlobals(services, stores, cookies)
    /\ InitVoice({FALSE}, {FALSE}, {Callbacks})

InitWith(ts, keys) ==
    /\ InitService(ts, keys)
    /\ InitMain({"ZyeonAIService"}, {"ConversationModel"}, {EmptySession})

(***************************************************************************)
(* Spec: one handler thread at a time calls get_ai_response.                *)
(***************************************************************************)
Init == InitWith({"t1"}, {"", "sk-test"})

CallGetAiResponse ==
    \E t \in threads, u \in UserInputs, p \in Plans :
        Call(t, u, <<>>, "default", p, FALSE)

Next ==
    \/ Tick(MaxTime)
    \/ CallGetAiResponse
    \/ \E t \in threads : CanMakeCallFilter(t)
    \/ \E t \in threads : CanMakeCallStore(t)
    \/ \E t \in threads : CanMakeCallReturn(t)
    \/ \E t \in threads : Validate(t)
    \/ \E t \in threads : RecordCall(t)
    \/ \E t \in threads : InvokeUpstream(t)
    \/ \E t \in threads : UpstreamResponds(t)
    \/ \E t \in threads : ExceptHandler(t)
    \/ \E t \in threads : WrapperStep(t)
    \/ \E t \in threads : Return(t)

Spec == Init /\ [][Next]_vars

(***************************************************************************)
(* SpecConc: two handler threads share one ZyeonAIService.  main.py runs    *)
(* Flask-SocketIO with async_mode='threading' (main.py:91-97): each request *)
(* is served by its own thread and nothing in ai_service.py takes a lock.   *)
(***************************************************************************)
InitConc == InitWith(AllThreads, {"sk-test"})

CallConcurrently ==
    /\ Len(recorded) < MaxRecorded
    /\ \E t \in threads : Call(t, " hi ", <<>>, "default", AlwaysSucceeds, FALSE)

NextConc ==
    \/ Tick(ConcHorizon)
    \/ CallConcurrently
    \/ \E t \in threads : CanMakeCallFilter(t)
    \/ \E t \in threads : CanMakeCallStore(t)
    \/ \E t \in threads : CanMakeCallReturn(t)
    \/ \E t \in threads : Validate(t)
    \/ \E t \in threads : RecordCall(t)
    \/ \E t \in threads : InvokeUpstream(t)
    \/ \E t \in threads : UpstreamResponds(t)
    \/ \E t \in threads : ExceptHandler(t)
    \/ \E t \in threads : WrapperStep(t)
    \/ \E t \in threads : Return(t)

SpecConc == InitConc /\ [][NextConc]_vars

(***************************************************************************)
(* SpecCtx: get_ai_response is called with a history the caller built, of   *)
(* any length up to MaxTurns; entries may lack a key.                       *)
(***************************************************************************)
CompleteTurn == [user_message |-> "q1", ai_response |-> "a1"]

PartialTurn == [user_message |-> "q2"]

RECURSIVE SeqsUpTo(_, _)
SeqsUpTo(S, n) ==
    IF n = 0 THEN {<<>>}
    ELSE SeqsUpTo(S, n - 1) \cup {Append(s, x) : s \in SeqsUpTo(S, n - 1), x \in S}

GivenHistories == SeqsUpTo({CompleteTurn, PartialTurn}, MaxTurns)

CallWithGivenHistory ==
    \E t \in threads, h \in GivenHistories, c \in {"voice", "realtime"} :
        Call(t, " hi ", h, c, AlwaysSucceeds, FALSE)

NextCtx ==
    \/ Tick(CtxHorizon)
    \/ CallWithGivenHistory
    \/ \E t \in threads : CanMakeCallFilter(t)
    \/ \E t \in threads : CanMakeCallStore(t)
    \/ \E t \in threads : CanMakeCallReturn(t)
    \/ \E t \in threads : Validate(t)
    \/ \E t \in threads : RecordCall(t)
    \/ \E t \in threads : InvokeUpstream(t)
    \/ \E t \in threads : UpstreamResponds(t)
    \/ \E t \in threads : ExceptHandler(t)
    \/ \E t \in threads : WrapperStep(t)
    \/ \E t \in threads : Return(t)

InitCtx == InitWith({"t1"}, {"sk-test"})

SpecCtx == InitCtx /\ [][NextCtx]_vars

(***************************************************************************)
(* SpecStore: the store is filled by create_conversation and                *)
(* get_ai_response is called with a history get_conversation_history        *)
(* returned, as the handlers of main.py call it (main.py:279-290).          *)
(***************************************************************************)
\* the k-th turn stored carries the user message "q<k>"
StoredMessage(k) == "q" \o ToString(k)

StoreTurn ==
    /\ create_conversation(StoredMessage(Len(conversations) + 1), "a1", "u1",
                           None, None, "text", EmptyMap)
    /\ UNCHANGED appvars

CallWithStoredHistory ==
    \E t \in threads, limit \in 1..MaxTurns :
        \E h \in get_conversation_history("u1", None, None, limit, 0) :
            Call(t, " hi ", h, "realtime", AlwaysSucceeds, TRUE)

NextStore ==
    \/ Tick(StoreHorizon)
    \/ StoreTurn
    \/ CallWithStoredHistory
    \/ \E t \in threads : CanMakeCallFilter(t)
    \/ \E t \in threads : CanMakeCallStore(t)
    \/ \E t \in threads : CanMakeCallReturn(t)
    \/ \E t \in threads : Validate(t)
    \/ \E t \in threads : RecordCall(t)
    \/ \E t \in threads : InvokeUpstream(t)
    \/ \E t \in threads : UpstreamResponds(t)
    \/ \E t \in threads : ExceptHandler(t)
    \/ \E t \in threads : WrapperStep(t)
    \/ \E t \in threads : Return(t)

SpecStore == InitCtx /\ [][NextStore]_vars

(***************************************************************************)
(* SpecApp: one handler thread serves turns arriving by POST /api/chat, by  *)
(* send_message of the connected client c1 and from the voice recognizer,   *)
(* with each of ai_service and conversation_model configured or not.  The   *)
(* turns arrive within one second: the clock does not tick in this          *)
(* specification.                                                           *)
(***************************************************************************)
\* a turn is started while fewer than AppTurns turns are stored
AppTurns == 2

Messages == {"", "  ", " hi "}

VoiceTexts == {"hi"}

InitApp ==
    /\ InitService({"t1"}, {"sk-test"})
    /\ InitMain({None, "ZyeonAIService"}, {None, "ConversationModel"}, {EmptySession})

PostChat ==
    /\ Len(conversations) < AppTurns
    /\ \E t \in threads, m \in Messages : ChatRequest(t, m)

SendMessage ==
    /\ Len(conversations) < AppTurns
    /\ \E t \in threads, m \in Messages : SocketMessage(t, "c1", m)

SpeechRecognized ==
    /\ Len(conversations) < AppTurns
    /\ \E t \in threads, x \in VoiceTexts : VoiceInput(t, x)

NextApp ==
    \/ \E t \in threads : HandleConnect(t, "c1")
    \/ PostChat
    \/ SendMessage
    \/ SpeechRecognized
    \/ \E t \in threads : SocketLastActivity(t)
    \/ \E t \in threads : SocketValidate(t)
    \/ \E t \in threads : ResolveIds(t)
    \/ \E t \in threads : TouchUser(t)
    \/ \E t \in threads : FetchHistory(t)
    \/ \E t \in threads : InvokeGenerator(t)
    \/ \E t \in threads : CanMakeCallFilter(t)
    \/ \E t \in threads : CanMakeCallStore(t)
    \/ \E t \in threads : CanMakeCallReturn(t)
    \/ \E t \in threads : Validate(t)
    \/ \E t \in threads : RecordCall(t)
    \/ \E t \in threads : InvokeUpstream(t)
    \/ \E t \in threads : UpstreamResponds(t)
    \/ \E t \in threads : ExceptHandler(t)
    \/ \E t \in threads : WrapperStep(t)
    \/ \E t \in threads : GeneratorReturns(t)
    \/ \E t \in threads : SaveTurn(t)
    \/ \E t \in threads : Respond(t)
    \/ \E t \in threads : HandlerExcept(t)
    \/ \E t \in threads : HandlerEnds(t)

SpecApp == InitApp /\ [][NextApp]_vars

(***************************************************************************)
(* SpecReg: two handler threads serve connect, disconnect and send_message  *)
(* events of two connections of one browser (two tabs, or a reconnect).     *)
(* The messages are the ones handle_socket_message refuses at line 569, so  *)
(* that the handler ends inside main.py.                                    *)
(***************************************************************************)
RegHorizon == 2

RefusedMessages == {"", "  "}

InitReg ==
    /\ InitService(AllThreads, {"sk-test"})
    /\ InitMain({"ZyeonAIService"}, {None, "ConversationModel"},
                {EmptySession, ReturningSession})

ClientConnects == \E t \in threads, c \in Sids : HandleConnect(t, c)

ClientDisconnects == \E t \in threads, c \in Sids : HandleDisconnect(t, c)

ClientSends == \E t \in threads, c \in Sids, m \in RefusedMessages : SocketMessage(t, c, m)

NextReg ==
    \/ Tick(RegHorizon)
    \/ ClientConnects
    \/ ClientDisconnects
    \/ ClientSends
    \/ \E t \in threads : SocketLastActivity(t)
    \/ \E t \in threads : SocketValidate(t)
    \/ \E t \in threads : DisconnectEndSession(t)
    \/ \E t \in threads : DisconnectDel(t)
    \/ \E t \in threads : HandlerExcept(t)
    \/ \E t \in threads : HandlerEnds(t)

SpecReg == InitReg /\ [][NextReg]_vars

(***************************************************************************)
(* SpecListen: two callers start and stop listening on one voice bridge,   *)
(* with or without capture devices and callbacks; the loops and the        *)
(* recognition threads run beside them.                                     *)
(***************************************************************************)
CallbackSets == {{}, Callbacks}

InitListen ==
    /\ InitService({}, {"sk-test"})
    /\ InitGlobals({"ZyeonAIService"}, {"ConversationModel"}, {EmptySession})
    /\ InitVoice(BOOLEAN, {FALSE}, CallbackSets)

NextListen ==
    \/ \E v \in VoiceCallers : start_listening(v)
    \/ \E v \in VoiceCallers : start_listening_thread(v)
    \/ \E v \in VoiceCallers : start_listening_callback(v)
    \/ \E v \in VoiceCallers : stop_listening(v)
    \/ \E v \in VoiceCallers : stop_listening_join(v)
    \/ \E v \in VoiceCallers : stop_listening_callback(v)
    \/ \E i \in DOMAIN listen_threads : listen_loop_while(i)
    \/ \E i \in DOMAIN listen_threads : listen_loop_listen(i)
    \/ \E i \in DOMAIN listen_threads : listen_loop_finally(i)
    \/ \E a \in DOMAIN audio_threads : process_audio(a)

SpecListen == InitListen /\ [][NextListen]_vars

(***************************************************************************)
(* SpecSpeak: two callers ask one voice bridge to speak, with and without  *)
(* interrupt, and to stop speaking; the synthesis threads run beside them.  *)
(***************************************************************************)
SpeakTexts == {"", " hi "}

InitSpeak ==
    /\ InitService({}, {"sk-test"})
    /\ InitGlobals({"ZyeonAIService"}, {"ConversationModel"}, {EmptySession})
    /\ InitVoice({FALSE}, BOOLEAN, CallbackSets)

SpeakCommand ==
    \E v \in VoiceCallers, text \in SpeakTexts, interrupt_current \in BOOLEAN :
        speak_text(v, text, interrupt_current)

NextSpeak ==
    \/ SpeakCommand
    \/ \E v \in VoiceCallers : stop_speaking(v)
    \/ \E i \in DOMAIN speech_threads : speak_text_thread_begin(i)
    \/ \E i \in DOMAIN speech_threads : speak_text_thread_say(i)
    \/ \E i \in DOMAIN speech_threads : speak_text_thread_finally(i)

SpecSpeak == InitSpeak /\ [][NextSpeak]_vars

(***************************************************************************)
(* SpecRetain: turns are stored and old turns are cleaned up while the     *)
(* clock advances.                                                          *)
(***************************************************************************)
RetentionDays == {0, 1}

Cleanup == \E days \in RetentionDays : cleanup_old_conversations(days)

NextRetain ==
    \/ Tick(RetainHorizon)
    \/ StoreTurn
    \/ Cleanup

SpecRetain == InitCtx /\ [][NextRetain]_vars

(***************************************************************************)
(* SpecRetry: retry_on_failure(max_retries=3, delay=1.0) around a function  *)
(* whose every run returns or raises as its behaviour says.                 *)
(***************************************************************************)
\* what the k-th run does: returns a value, or raises an exception of its own
Behaviours ==
    { [k \in 1..max_retries |->
            IF k \in raising THEN Raised("error " \o ToString(k))
            ELSE Returned("value " \o ToString(k), EmptyMap)] :
        raising \in SUBSET (1..max_retries) }

AlwaysRaises == [k \in 1..max_retries |-> Raised("error " \o ToString(k))]

CallOperation == \E t \in threads, b \in Behaviours : CallDecorated(t, b)

NextRetry ==
    \/ Tick(MaxTime)
    \/ CallOperation
    \/ \E t \in threads : OperationRuns(t)
    \/ \E t \in threads : WrapperStep(t)
    \/ \E t \in threads : Return(t)

SpecRetry == InitCtx /\ [][NextRetry]_vars

(***************************************************************************)
(* SpecDuplex: a voice bridge with capture devices and an engine, as       *)
(* constructed (no callback set), is asked to listen and, while it         *)
(* listens, to speak.                                                       *)
(***************************************************************************)
InitDuplex ==
    /\ InitService({}, {"sk-test"})
    /\ InitGlobals({"ZyeonAIService"}, {"ConversationModel"}, {EmptySession})
    /\ InitVoice({TRUE}, {TRUE}, {{}})

\* a speak request that arrives while the bridge is listening
SpeakWhileListening ==
    /\ voice_service.is_listening
    /\ \E interrupt_current \in BOOLEAN : speak_text("v2", " hi ", interrupt_current)

NextDuplex ==
    \/ start_listening("v1")
    \/ start_listening_thread("v1")
    \/ start_listening_callback("v1")
    \/ \E i \in DOMAIN listen_threads : listen_loop_while(i)
    \/ \E i \in DOMAIN listen_threads : listen_loop_listen(i)
    \/ \E a \in DOMAIN audio_threads : process_audio(a)
    \/ SpeakWhileListening
    \/ \E i \in DOMAIN speech_threads : speak_text_thread_begin(i)
    \/ \E i \in DOMAIN speech_threads : speak_text_thread_say(i)
    \/ \E i \in DOMAIN speech_threads : speak_text_thread_finally(i)

SpecDuplex == InitDuplex /\ [][NextDuplex]_vars

(***************************************************************************)
(* SpecHealth: calls of get_ai_response fill the rate log, the clock        *)
(* advances, and health_check is called in between.                         *)
(***************************************************************************)
Probes == {UpstreamOk, Timeout}

CallHealthCheck == \E t \in threads, probe \in Probes : health_check(t, probe)

CallForHealth ==
    \E t \in threads, p \in {AlwaysSucceeds, AlwaysTimesOut} :
        Call(t, " hi ", <<>>, "default", p, FALSE)

NextHealth ==
    \/ Tick(MaxTime)
    \/ CallForHealth
    \/ \E t \in threads : CanMakeCallFilter(t)
    \/ \E t \in threads : CanMakeCallStore(t)
    \/ \E t \in threads : CanMakeCallReturn(t)
    \/ \E t \in threads : Validate(t)
    \/ \E t \in threads : RecordCall(t)
    \/ \E t \in threads : InvokeUpstream(t)
    \/ \E t \in threads : UpstreamResponds(t)
    \/ \E t \in threads : ExceptHandler(t)
    \/ \E t \in threads : WrapperStep(t)
    \/ \E t \in threads : Return(t)
    \/ CallHealthCheck
    \/ \E t \in threads : health_check_returns(t)
    \/ \E t \in threads : health_check_done(t)

SpecHealth == InitCtx /\ [][NextHealth]_vars

(***************************************************************************)
(* SpecOriginal: two browsers talk to the server of main_original.py.       *)
(***************************************************************************)
OriginalMessages == {"m1", "m2"}

OriginalRequest ==
    \E b \in Browsers, m \in OriginalMessages : original_get_ai_response(b, m)

NextOriginal ==
    \/ OriginalRequest
    \/ \E b \in Browsers : original_get_ai_response_returns(b)

SpecOriginal == InitCtx /\ [][NextOriginal]_vars

(***************************************************************************)
(* SpecSpeakFair: speech on a bridge with an engine and the callbacks       *)
(* of main.py:131-138, and every started synthesis thread keeps running:    *)
(* a thread that was started is scheduled, the callbacks return or raise,   *)
(* and runAndWait returns when the utterance is over or stopped.            *)
(***************************************************************************)
InitSpeakFair ==
    /\ InitService({}, {"sk-test"})
    /\ InitGlobals({"ZyeonAIService"}, {"ConversationModel"}, {EmptySession})
    /\ InitVoice({FALSE}, {TRUE}, {Callbacks})

\* a step of the i-th synthesis thread
SpeechThreadRuns(i) ==
    /\ i \in DOMAIN speech_threads
    /\ \/ speak_text_thread_begin(i)
       \/ speak_text_thread_say(i)
       \/ speak_text_thread_finally(i)

\* one caller speaks, with and without interrupt, and stops the speech
NextSpeakFair ==
    \/ \E interrupt_current \in BOOLEAN : speak_text("v1", " hi ", interrupt_current)
    \/ stop_speaking("v1")
    \/ \E i \in DOMAIN speech_threads : speak_text_thread_begin(i)
    \/ \E i \in DOMAIN speech_threads : speak_text_thread_say(i)
    \/ \E i \in DOMAIN speech_threads : speak_text_thread_finally(i)

SpecSpeakFair ==
    /\ InitSpeakFair
    /\ [][NextSpeakFair]_vars
    /\ \A i \in 1..MaxUtterances : WF_speech_threads(SpeechThreadRuns(i))

(***************************************************************************)
(* Properties.                                                              *)
(***************************************************************************)
\* the number of entries of log s inside the window that ends at time n
InWindow(s, n) == Cardinality({i \in DOMAIN s : n - s[i] < time_window})

Range(s) == {s[i] : i \in DOMAIN s}

Occurrences(s, x) == Cardinality({i \in DOMAIN s : s[i] = x})

\* the record_call times of the calls made before thread t's current one
RecordedBefore(t) == SubSeq(recorded, 1, Len(recorded) - fr[t].records)

\* the prompt is assembled and, from "invoke" on, sent
PromptReady(t) == pc[t] \in {"record_call", "invoke", "await"}

\* C1: against a backend that fails twice and then succeeds, one call returns
\* the successful result after exactly 3 invocations, having slept 1s then 2s.
RetriesUntilSuccess ==
    \A t \in threads :
        (pc[t] = "done" /\ fr[t].upstream = FailsTwiceThenSucceeds /\ fr[t].invocations > 0)
        => /\ fr[t].result.kind = "return"
           /\ fr[t].result.text = strip(UpstreamOk.content)
           /\ fr[t].result.metadata # EmptyMap
           /\ fr[t].invocations = 3
           /\ fr[t].slept = <<delay, 2 * delay>>

PromptIsChronological ==
    \A t \in threads :
        (PromptReady(t) /\ fr[t].from_store)
        => LET h == fr[t].given_history
               sel == recent_history(fr[t].conversation_history)
               m == fr[t].messages
           IN  /\ SubSeq(m, 2, Len(m) - 1) = HistoryMessages(sel, 1)
               /\ \A i, j \in DOMAIN sel :
                    i < j => sel[i].timestamp.iso <= sel[j].timestamp.iso
               /\ Len(h) > max_context_messages
                  => /\ Len(sel) = max_context_messages
                     /\ \A x \in Range(h) \ Range(sel), y \in Range(sel) :
                            x.timestamp.iso <= y.timestamp.iso

\* C4: the prompt sent upstream is one system entry, then at most
\* max_context_messages turns as alternating user/assistant entries, then the
\* new user input; the history it was built from is left as it was given.
PromptIsBounded ==
    \A t \in threads :
        PromptReady(t)
        => LET m == fr[t].messages
               k == Len(m)
           IN  /\ k >= 2
               /\ m[1] = [role |-> "system", content |-> _get_system_prompt(fr[t].context_type)]
               /\ \A i \in 2..k : m[i].role # "system"
               /\ m[k] = [role |-> "user", content |-> strip(fr[t].user_input)]
               /\ k - 2 <= 2 * max_context_messages
               /\ (k - 2) % 2 = 0
               /\ \A i \in 2..(k - 1) :
                    m[i].role = IF i % 2 = 0 THEN "user" ELSE "assistant"
               /\ fr[t].conversation_history = fr[t].given_history

PromptAtTheCap ==
    \E t \in threads :
        /\ pc[t] = "await"
        /\ Len(fr[t].given_history) > max_context_messages
        /\ Len(fr[t].messages) = 2 * max_context_messages + 2

\* C5: can_make_call returns false iff at least max_calls recorded times t have
\* check_time - t < time_window; older recorded calls do not count.
AdmissionCountsWindow ==
    \A t \in threads :
        (pc[t] \in {"validate", "except"} /\ fr[t].verdict # "-" /\ fr[t].records = 0)
        => ((fr[t].verdict = "no") <=> (InWindow(recorded, fr[t].check_time) >= max_calls))

AdmittedAfterExpiry ==
    \E t \in threads :
        /\ pc[t] = "validate"
        /\ fr[t].verdict = "yes"
        /\ Len(recorded) >= max_calls
        /\ InWindow(recorded, fr[t].check_time) < Len(recorded)

\* C6: with concurrent callers the log never holds more than max_calls entries
\* inside one trailing window (check and record act as one atomic step).
LogWithinCeiling ==
    /\ InWindow(calls, now) <= max_calls
    /\ InWindow(recorded, now) <= max_calls

\* C7: with one call at a time, at most max_calls entries lie inside the
\* trailing window, and a call that finds max_calls earlier calls inside the
\* window is rejected at admission with no upstream invocation.
RateCeilingSequential ==
    /\ InWindow(calls, now) <= max_calls
    /\ InWindow(recorded, now) <= max_calls
    /\ \A t \in threads :
        /\ pc[t] \in {"len_calls", "validate"} => InWindow(calls, fr[t].check_time) <= max_calls
        /\ (pc[t] = "done" /\ InWindow(RecordedBefore(t), fr[t].check_time) >= max_calls)
           => /\ fr[t].invocations = 0
              /\ fr[t].records = 0
              /\ fr[t].exc = RateLimitExceededMsg

CallRejectedAtCeiling ==
    \E t \in threads :
        /\ pc[t] = "done"
        /\ fr[t].user_input = " hi "
        /\ api_key # ""
        /\ fr[t].verdict = "no"
        /\ fr[t].invocations = 0
        /\ InWindow(recorded, fr[t].check_time) = max_calls

\* C8: record_call runs exactly once per upstream invocation, just before it,
\* and never in a call rejected by admission or by validation.
RecordedOncePerInvocation ==
    \A t \in threads :
        /\ fr[t].invocations <= fr[t].records
        /\ fr[t].records <= fr[t].invocations + 1
        /\ fr[t].records = fr[t].invocations + 1 => pc[t] = "invoke"
        /\ pc[t] = "done" => fr[t].records = fr[t].invocations
        /\ (fr[t].verdict = "no" \/ fr[t].exc \in {EmptyInputMsg, NoApiKeyMsg})
           => fr[t].records = 0

RecordedAndInvokedOnce ==
    \E t \in threads :
        /\ pc[t] = "done"
        /\ fr[t].invocations = 1
        /\ fr[t].records = 1
        /\ recorded # <<>>

\* C9: a call rejected at admission ends at once with the rate-limit apology,
\* no upstream invocation, no retry and no entry added to the log.
RejectionGivesRateLimitOutcome ==
    \A t \in threads :
        (pc[t] = "done" /\ fr[t].verdict = "no")
        => /\ fr[t].result = Returned(RateLimitApology, EmptyMap)
           /\ fr[t].invocations = 0
           /\ fr[t].attempt = 0
           /\ fr[t].records = 0

\* C10: a step of can_make_call adds no entry to the log and changes neither
\* the in-window count nor the answer of can_make_call at any later time; the
\* log grows only by record_call.
CanMakeCallStep(t) ==
    /\ pc[t] \in {"can_make_call", "store_calls", "len_calls"}
    /\ pc'[t] # pc[t]

CanMakeCallIsARead ==
    [][ /\ \A t \in threads :
            CanMakeCallStep(t)
            => /\ \A x \in Range(calls') : Occurrences(calls', x) <= Occurrences(calls, x)
               /\ \A n \in now..(MaxTime + time_window) :
                    /\ InWindow(calls', n) = InWindow(calls, n)
                    /\ BelowLimit(PruneCalls(calls', n)) = BelowLimit(PruneCalls(calls, n))
        /\ Len(calls') > Len(calls)
           => \E t \in threads : pc[t] = "record_call" /\ pc'[t] = "invoke"
      ]_vars

PrunedByCheck ==
    \E t \in threads :
        /\ pc[t] = "len_calls"
        /\ calls = fr[t].pruned
        /\ Len(calls) < Len(recorded)
        /\ calls # <<>>

(***************************************************************************)
(* Properties of the handlers of main.py.                                   *)
(***************************************************************************)
\* answer a carries the response text r to the client: the 200 body of chat
\* or an ai_response event
CarriesResponse(a, r) ==
    \/ a.kind = "http" /\ a.status = 200 /\ a.body.response = r
    \/ a.kind = "emit" /\ a.event = "ai_response" /\ a.payload.text = r

IsError(a) ==
    \/ a.kind = "http" /\ a.status >= 400
    \/ a.kind = "emit" /\ a.event = "error"

\* the handler of thread t is one of the three entry paths of a turn
TurnHandler(t) == hfr[t].handler \in {"chat", "send_message", "voice"}

\* C11: on each entry path, when create_conversation fails after the model
\* produced a response, the failure is logged and the user still gets the AI
\* response on the originating channel, not an error.
PersistenceFailureStillAnswers ==
    \A t \in threads :
        (hpc[t] = "finished" /\ TurnHandler(t) /\ hfr[t].exc = StoreErrorMsg)
        => /\ hfr[t].logged # <<>>
           /\ \E i \in DOMAIN hfr[t].answers :
                CarriesResponse(hfr[t].answers[i], hfr[t].ai_response)
           /\ \A i \in DOMAIN hfr[t].answers : ~IsError(hfr[t].answers[i])

\* the responses the except clause of get_ai_response can produce
Apologies == {RateLimitApology, InvalidApology, AuthApology, ConnectionApology, GenericApology}

\* thread t's handler has made the call named op
Did(t, op) == \E i \in DOMAIN hfr[t].trace : hfr[t].trace[i] = op

\* C12: a turn is stored only after a successful model call: no stored turn
\* carries a degraded (apology) response of a failed, rejected or rate-limited
\* generation.
OnlySuccessfulTurnsStored ==
    /\ \A i \in DOMAIN conversations : conversations[i].ai_response \notin Apologies
    /\ \A t \in threads :
        Did(t, "create_conversation")
        => /\ hfr[t].generation.exc = None
           /\ hfr[t].generation.invocations > 0

EndsAgain(t) ==
    /\ hpc[t] = "end_session"
    /\ conversation_model # None
    /\ \A i \in DOMAIN sessions :
            sessions[i].session_id = hfr[t].client_info.session_id
            => ~sessions[i].is_active

\* C14: end_session on an already-ended session, or on an unknown session_id,
\* raises no error and leaves the stored session record as it was after the
\* first end.
EndSessionIsIdempotent ==
    [][ \A t \in threads :
            (EndsAgain(t) /\ hpc'[t] # hpc[t])
            => /\ hpc'[t] = "del"
               /\ sessions' = sessions ]_vars

\* C15: every connection in the registry refers to a session record that
\* exists in the store with is_active = true; a session is inactive only when
\* no live connection carries its session_id (two connections may share one).
RegistryRefersToActiveSession ==
    conversation_model # None
    => \A c \in DOMAIN connected_clients :
            sockets[c] = "connected"
            => \E i \in DOMAIN sessions :
                    /\ sessions[i].session_id = connected_clients[c].session_id
                    /\ sessions[i].is_active

\* thread t takes up the disconnect of a connection the registry does not hold
UnknownDisconnect(t) ==
    /\ hpc[t] = "idle"
    /\ hfr'[t].handler = "disconnect"
    /\ hfr'[t].client_id \notin DOMAIN connected_clients

\* C16: the keys of the registry are exactly the connection ids that have
\* connected and not yet disconnected, each entry holds user_id, session_id,
\* connected_at and last_activity, and the disconnect of an unknown
\* connection changes nothing.
RegistryMatchesConnections ==
    /\ [](\A c \in Sids :
            /\ sockets[c] = "connected" => c \in DOMAIN connected_clients
            /\ sockets[c] \in {"new", "closed"} => c \notin DOMAIN connected_clients
            /\ c \in DOMAIN connected_clients
               => DOMAIN connected_clients[c] =
                    {"user_id", "session_id", "connected_at", "last_activity"})
    /\ [][ \A t \in threads :
            UnknownDisconnect(t)
            => /\ UNCHANGED <<connected_clients, sessions, users, flask_session>>
               /\ hpc'[t] = "finished" ]_vars

\* one client has connected and disconnected, another is connected and has
\* sent a message since
RegistryAfterTraffic ==
    \E c, d \in Sids :
        /\ sockets[c] = "closed"
        /\ \E i \in DOMAIN sessions : sessions[i].metadata.client_id = c
        /\ sockets[d] = "connected"
        /\ DOMAIN connected_clients = {d}
        /\ connected_clients[d].last_activity.iso > connected_clients[d].connected_at.iso

\* C17: the registry accesses of concurrently running handlers are mutually
\* exclusive: no interleaving of a message handler's membership test and
\* last_activity write with a disconnect of the same connection makes the
\* message handler fail with an internal error.
MessageHandlerNeverFails ==
    \A t \in threads :
        hfr[t].handler = "send_message"
        => /\ hfr[t].exc = None
           /\ \A i \in DOMAIN hfr[t].answers :
                hfr[t].answers[i] # Emit("error", [message |-> "Error processing message"])

\* C18: with a store configured, every turn that reaches the model, on each of
\* the three entry paths, has called update_user_activity for its user before
\* it fetched the history.
ActivityTouchedBeforeHistory ==
    \A t \in threads :
        (TurnHandler(t) /\ conversation_model # None /\ Did(t, "get_ai_response"))
        => /\ hfr[t].user_id \in DOMAIN users
           /\ \E i, j \in DOMAIN hfr[t].trace :
                /\ i < j
                /\ hfr[t].trace[i] = "update_user_activity"
                /\ hfr[t].trace[j] = "get_conversation_history"

\* C19: every send_message event is answered to its client with exactly one
\* event, ai_response or error, and every POST /api/chat ends with exactly one
\* HTTP response; an exception of generation or persistence ends in the
\* handler's except clause and nowhere else.
ExactlyOneAnswer ==
    \A t \in threads :
        hfr[t].handler \in {"chat", "send_message"}
        => /\ hpc[t] # "finished" => hfr[t].answers = <<>>
           /\ hpc[t] = "finished"
              => /\ Len(hfr[t].answers) = 1
                 /\ IF hfr[t].handler = "chat"
                    THEN hfr[t].answers[1].kind = "http"
                    ELSE /\ hfr[t].answers[1].kind = "emit"
                         /\ hfr[t].answers[1].to = "client"
                         /\ hfr[t].answers[1].event \in {"ai_response", "error"}
                 /\ hfr[t].exc # None
                    => /\ IsError(hfr[t].answers[1])
                       /\ hfr[t].logged # <<>>

\* a send_message turn whose storage failed has been answered with one error
StorageFailureAnswered ==
    \E t \in threads :
        /\ hpc[t] = "finished"
        /\ hfr[t].handler = "send_message"
        /\ hfr[t].exc = StoreErrorMsg
        /\ hfr[t].generation.invocations = 1
        /\ hfr[t].answers = <<Emit("error", [message |-> "Error processing message"])>>

\* the request thread t takes up is a POST /api/chat that chat refuses
RefusedChat(t) ==
    /\ hpc[t] = "idle"
    /\ hfr'[t].handler = "chat"
    /\ ~Truthy(strip(hfr'[t].data_message)) \/ ai_service = None

\* C20: POST /api/chat with an empty or whitespace-only message returns 400
\* 'Message is required', with a message but no generator it returns 503; in
\* both cases no identity is generated, no user activity updated, no upstream
\* call made, no rate-log entry added and no turn stored.
ChatRefusesEarly ==
    /\ [][ \A t \in threads :
            RefusedChat(t)
            => /\ hpc'[t] = "finished"
               /\ hfr'[t].answers =
                    IF ~Truthy(strip(hfr'[t].data_message))
                    THEN <<HttpResponse(400, [error |-> "Message is required"])>>
                    ELSE <<HttpResponse(503, [error |-> "AI service not available"])>>
               /\ UNCHANGED <<flask_session, uuid_count, users, calls, recorded,
                              conversations, pc, fr>> ]_vars
    /\ [](\A t \in threads :
            (hfr[t].handler = "chat" /\ hfr[t].answers # <<>>
                /\ hfr[t].answers[1].status \in {400, 503})
            => /\ hpc[t] = "finished"
               /\ hfr[t].trace = <<>>
               /\ hfr[t].user_id = None
               /\ hfr[t].session_id = None
               /\ hfr[t].generation = IdleFrame)

\* a whitespace-only message was refused with both services configured
ChatRefusedWhitespace ==
    \E t \in threads :
        /\ hpc[t] = "finished"
        /\ hfr[t].handler = "chat"
        /\ hfr[t].data_message = "  "
        /\ ai_service # None
        /\ conversation_model # None
        /\ hfr[t].answers = <<HttpResponse(400, [error |-> "Message is required"])>>
        /\ flask_session[Http] = EmptySession
        /\ users = EmptyMap
        /\ recorded = <<>>
        /\ conversations = <<>>

\* the listening loops that have been started and have not finished
RunningLoops == {i \in DOMAIN listen_threads : is_alive(listen_threads[i])}

NoCaptureDevice == ~voice_service.recognizer \/ ~voice_service.microphone

\* caller v has returned from a call of method
VoiceReturned(v, method) == vpc[v] = "idle" /\ vfr[v].method = method

\* caller v returns from stop_listening in this step
StopReturns(v) == vpc[v] = "stopped_callback" /\ vpc'[v] = "idle"

\* C21: without a capture device start_listening returns false, is_listening
\* stays false, no listening loop is started and no callback is fired.
StartRefusedWithoutDevice ==
    NoCaptureDevice =>
        /\ ~voice_service.is_listening
        /\ listen_threads = <<>>
        /\ \A v \in VoiceCallers :
            /\ vpc[v] # "start_thread"
            /\ vfr[v].method = "start_listening" =>
                   vfr[v].result = FALSE /\ vfr[v].fired = {}

\* start_listening has returned on a bridge that has callbacks but no
\* capture device
StartRefused ==
    /\ NoCaptureDevice
    /\ voice_service.callbacks = Callbacks
    /\ \E v \in VoiceCallers : VoiceReturned(v, "start_listening") /\ vfr[v].result = FALSE

\* C22: stop_listening always returns true and leaves is_listening false,
\* whatever the state of the bridge and whatever the stopped-callback does.
StopAlwaysSucceeds ==
    [][\A v \in VoiceCallers :
        StopReturns(v) => vfr'[v].result = TRUE /\ ~voice_service'.is_listening]_vars

\* C23: at most one listening loop is running in every reachable state.
AtMostOneLoop == Cardinality(RunningLoops) <= 1

\* C24: when stop_listening returns true, every listening loop that was
\* started before the call has exited.
StoppedMeansLoopExited ==
    [][\A v \in VoiceCallers :
        StopReturns(v) /\ vfr'[v].result = TRUE
            => \A i \in 1..vfr[v].loops : ~is_alive(listen_threads'[i])]_vars

\* utterance i is being played: its thread is in runAndWait and was not stopped
Playing(i) == speech_threads[i].pc = "speaking" /\ ~speech_threads[i].cancelled

\* the thread of the cancelled utterance i finishes in this step
CancelledFinishes(i) ==
    /\ speech_threads[i].cancelled
    /\ speech_threads[i].pc = "finally"
    /\ speech_threads'[i].pc = "done"

\* C25: an interrupting speak_text cancels the current utterance only: when
\* the cancelled thread finishes while the utterance that interrupted it is
\* being played, the speaking state stays set.
CancelledFinishKeepsSpeaking ==
    [][\A i \in DOMAIN speech_threads :
        CancelledFinishes(i)
        /\ (\E j \in DOMAIN speech_threads :
                j # i /\ Playing(j) /\ speech_threads[j].interrupting)
        => voice_service'.is_speaking]_vars

\* the threads the voice bridge has started for recognition and synthesis
WorkerThreads ==
    {audio_threads[a] : a \in DOMAIN audio_threads}
        \cup {speech_threads[i] : i \in DOMAIN speech_threads}

\* C26: every error raised during recognition or synthesis is passed to the
\* error callback when one is set, and none leaves the thread it was raised in.
ErrorsReported ==
    \A thread \in WorkerThreads :
        /\ ~thread.escaped
        /\ ("on_speech_error" \in voice_service.callbacks /\ thread.pc = "done")
                => thread.raised \subseteq thread.reported

\* s is a prefix of r and r has one more element
OneAppended(s, r) == Len(r) = Len(s) + 1 /\ SubSeq(r, 1, Len(s)) = s

\* r is what is left of s when exactly the documents older than cutoff go
ExactlyOlderRemoved(s, r, cutoff) ==
    LET kept == {i \in DOMAIN s : ~(s[i].timestamp < cutoff)} IN
        /\ Len(r) = Cardinality(kept)
        /\ \A i \in DOMAIN r :
            \E j \in kept : r[i] = s[j] /\ Cardinality({k \in kept : k <= j}) = i

\* C27: the stored turns only change by create_conversation appending one
\* turn, or by cleanup_old_conversations removing exactly the turns older
\* than its cutoff and returning their count; the turns that stay are
\* unchanged.
TurnsAppendOnlyUntilCleanup ==
    [][conversations' # conversations =>
        \/ OneAppended(conversations, conversations')
        \/ \E days \in RetentionDays :
            /\ ExactlyOlderRemoved(conversations, conversations', now - days * DayLength)
            /\ deleted_count' = Len(conversations) - Len(conversations')]_vars

\* a cleanup has removed some turns and kept others
CleanupRemovedSome ==
    /\ removed # {}
    /\ deleted_count > 0
    /\ conversations # <<>>

\* thread t reads the history for its turn in this step
ReadsHistory(t) == hpc[t] = "get_history" /\ hpc'[t] # "get_history"

\* the stored turns the history read of thread t's turn asks for
Wanted(t) ==
    {i \in DOMAIN conversations :
        Matches(conversations[i], hfr[t].user_id, hfr[t].conversation_id, None)}

\* C28: reading the history never fails the turn: the turn goes on to the
\* model call; the history is empty when no store is configured, when the
\* store raises and when nothing matches; and the stored turns are unchanged.
HistoryReadNeverFails ==
    [][\A t \in threads :
        ReadsHistory(t) =>
            /\ hpc'[t] = "get_ai_response"
            /\ hfr'[t].exc = None
            /\ conversations' = conversations
            /\ (\/ conversation_model = None
                \/ Wanted(t) = {}
                \/ Did(t, "get_conversation_history failed")')
               => hfr'[t].conversation_history = <<>>]_vars

\* a turn whose history read failed went on and got its response
AnsweredAfterFailedRead ==
    \E t \in threads :
        /\ hpc[t] = "finished"
        /\ TurnHandler(t)
        /\ Did(t, "get_conversation_history failed")
        /\ conversations # <<>>
        /\ hfr[t].exc = None
        /\ \E i \in DOMAIN hfr[t].answers : CarriesResponse(hfr[t].answers[i], hfr[t].ai_response)

\* user_input is empty or whitespace-only (the test of line 128)
EmptyInput(u) == ~Truthy(u) \/ ~Truthy(strip(u))

\* C29: a call with an empty or whitespace-only user_input ends as a caller
\* error (the empty-input error) with no upstream invocation, no retry and no
\* entry added to the rate log, whatever the state of the rate limiter.
EmptyInputFailsFast ==
    \A t \in threads :
        (pc[t] = "done" /\ EmptyInput(fr[t].user_input))
        => /\ fr[t].exc = EmptyInputMsg
           /\ fr[t].invocations = 0
           /\ fr[t].attempt = 0
           /\ fr[t].records = 0

\* the ids held by the sessions
BoundIds ==
    {flask_session[k].user_id : k \in DOMAIN flask_session}
        \cup {flask_session[k].session_id : k \in DOMAIN flask_session}

\* thread t resolves the ids of a turn in this step
ResolvesIds(t) == hpc[t] = "get_ids" /\ hpc'[t] # "get_ids"

\* thread t takes up a connect event in this step
Connects(t) == hpc[t] = "idle" /\ hpc'[t] # "idle" /\ hfr'[t].handler = "connect"

\* C30: the ids bound to a session never change; an id is generated only for
\* a session that holds none; a turn uses the ids of its session, and a
\* connect from a browser whose session holds ids uses those ids.
IdentityStablePerContext ==
    [][/\ \A k \in DOMAIN flask_session :
            /\ flask_session[k].user_id # None
                    => flask_session'[k].user_id = flask_session[k].user_id
            /\ flask_session[k].session_id # None
                    => flask_session'[k].session_id = flask_session[k].session_id
       /\ uuid_count' # uuid_count
            => \E k \in DOMAIN flask_session :
                    \/ /\ flask_session[k].user_id = None
                       /\ flask_session'[k].user_id \notin BoundIds
                    \/ /\ flask_session[k].session_id = None
                       /\ flask_session'[k].session_id \notin BoundIds
       /\ \A t \in threads :
            ResolvesIds(t)
            => /\ hfr'[t].user_id = flask_session'[SessionKey(hfr[t])].user_id
               /\ hfr'[t].session_id = flask_session'[SessionKey(hfr[t])].session_id
       /\ \A t \in threads :
            Connects(t)
            => /\ hfr'[t].user_id = flask_session'[hfr'[t].client_id].user_id
               /\ hfr'[t].session_id = flask_session'[hfr'[t].client_id].session_id
               /\ flask_session[Http].user_id # None
                    => hfr'[t].user_id = flask_session[Http].user_id
               /\ flask_session[Http].session_id # None
                    => hfr'[t].session_id = flask_session[Http].session_id]_vars

\* a chat turn bound ids to the browser's session, a later connect and a
\* later message of that connection used the same ids, and no further id was
\* drawn
IdsReused ==
    /\ flask_session[Http].user_id # None
    /\ flask_session["c1"] = flask_session[Http]
    /\ uuid_count = 2
    /\ \E t \in threads :
        /\ hpc[t] = "finished"
        /\ hfr[t].handler = "send_message"
        /\ hfr[t].user_id = flask_session[Http].user_id
        /\ hfr[t].session_id = flask_session[Http].session_id


(***************************************************************************)
(* Recording, degraded answers and the retry wrapper.                       *)
(***************************************************************************)
\* the upstream invocation of call t has raised (the call is in the except
\* clause of lines 182-195 after a request was made)
UpstreamRaised(t) == pc[t] = "except" /\ fr[t].invocations >= 1

\* C31: a call whose upstream invocation raises has added no entry to the
\* rate log: record_call runs on the success path only.
RecordedOnSuccessOnly ==
    \A t \in threads : UpstreamRaised(t) => fr[t].records = 0


\* the failure categories of the degraded answer, by where the failure arose
Category(f) ==
    IF f.verdict = "no" /\ f.invocations = 0 THEN "rate_limit"
    ELSE IF f.exc = EmptyInputMsg THEN "invalid"
    ELSE IF f.exc = NoApiKeyMsg THEN "authentication"
    ELSE IF f.exc = "Connection error." THEN "connection"
    ELSE IF f.exc = "Request timed out." THEN "other"
    ELSE "-"

\* the apology of a category
Apology(category) ==
    CASE category = "rate_limit" -> RateLimitApology
      [] category = "invalid" -> InvalidApology
      [] category = "authentication" -> AuthApology
      [] category = "connection" -> ConnectionApology
      [] category = "other" -> GenericApology

\* C32: the degraded response text is a function of the failure category:
\* rate-limit refusal, empty input, missing API key, connectivity failure and
\* anything else each get their own apology.
DegradedTextByCategory ==
    \A t \in threads :
        (pc[t] = "done" /\ fr[t].exc # None /\ Category(fr[t]) # "-")
        => fr[t].result = Returned(Apology(Category(fr[t])), EmptyMap)


\* thread t has come back from a call of the decorated operation
OperationDone(t) == pc[t] = "done" /\ fr[t].func = "operation"

\* C33: retry_on_failure(max_retries=3, delay=1.0) around an operation that
\* raises on every attempt invokes it exactly 3 times, sleeps 1s after the
\* first failure and 2s after the second, none after the last, and propagates
\* the last attempt's exception; an operation that returns normally is
\* invoked once.
RetryWrapperContract ==
    \A t \in threads :
        OperationDone(t)
        => /\ fr[t].upstream = AlwaysRaises
                => /\ fr[t].invocations = 3
                   /\ fr[t].slept = <<1, 2>>
                   /\ fr[t].result = AlwaysRaises[3]
           /\ fr[t].upstream[1].kind = "return"
                => /\ fr[t].invocations = 1
                   /\ fr[t].slept = <<>>
                   /\ fr[t].result = fr[t].upstream[1]

\* an always-raising operation has been given up on after its third run
RetriesExhausted ==
    \E t \in threads :
        /\ OperationDone(t)
        /\ fr[t].upstream = AlwaysRaises
        /\ fr[t].invocations = max_retries
        /\ fr[t].result.kind = "raise"
        /\ now >= 3


(***************************************************************************)
(* Properties of listening and speaking together.                           *)
(***************************************************************************)
\* this step is a step of speech: a speak_text call, or a step of a
\* _speak_text_thread thread
SpeechStep ==
    \/ speech_threads' # speech_threads
    \/ \E v \in VoiceCallers :
            vfr'[v].method = "speak_text" /\ vfr[v].method # "speak_text"

\* utterances were started and every one of them has completed
AllUtterancesDone ==
    /\ speech_threads # <<>>
    /\ \A i \in DOMAIN speech_threads : speech_threads[i].pc = "done"

\* C34: a speak request, the speech and its completion leave is_listening
\* as it was, and once the last utterance in flight has completed
\* is_speaking is false.
SpeechLeavesListening ==
    [][/\ SpeechStep => voice_service'.is_listening = voice_service.is_listening
       /\ AllUtterancesDone' => ~voice_service'.is_speaking]_vars

\* two utterances were spoken to the end while the bridge went on listening
SpokenWhileListening ==
    /\ AllUtterancesDone
    /\ Len(speech_threads) >= 2
    /\ voice_service.is_listening
    /\ \E i \in DOMAIN listen_threads : listen_threads[i].pc = "listen"


\* loop i captures a phrase in this step
Captures(i) ==
    /\ i \in DOMAIN listen_threads
    /\ listen_threads[i].pc = "listen"
    /\ listen_threads'[i].pc # "listen"
    /\ Len(audio_threads') > Len(audio_threads)

\* recognition thread a gets its text in this step
Recognizes(a) ==
    /\ audio_threads[a].heard = None
    /\ audio_threads'[a].heard # None

\* C35: while listening, each captured utterance is handed to a recognition
\* thread of its own and the loop goes back to capturing without waiting for
\* it; a recognized utterance fires the recognized-text callback (when one
\* is set) and leaves is_listening as it was.
CaptureHandsOver ==
    [][/\ \A i \in DOMAIN listen_threads :
            Captures(i)
            => /\ audio_threads' = Append(audio_threads, AudioThread)
               /\ listen_threads'[i].pc = "while"
       /\ \A a \in DOMAIN audio_threads :
            Recognizes(a)
            => /\ "on_speech_recognized" \in voice_service.callbacks
                    => "on_speech_recognized" \in audio_threads'[a].fired
               /\ voice_service'.is_listening = voice_service.is_listening]_vars

\* an utterance was recognized and passed to the callback while the loop,
\* still listening, is capturing again
RecognizedWhileCapturing ==
    /\ voice_service.is_listening
    /\ \E i \in DOMAIN listen_threads : listen_threads[i].pc = "listen"
    /\ \E a \in DOMAIN audio_threads :
        /\ audio_threads[a].heard = RecognizedText
        /\ "on_speech_recognized" \in audio_threads[a].fired


\* C36: health_check on a reachable backend reports max_calls minus the
\* number of recorded calls inside the trailing window at the time of the
\* check; when the probe fails it reports unhealthy after one request,
\* without retrying and without raising.
HealthReportsWindowBudget ==
    \A t \in threads :
        pc[t] = "reported"
        => IF fr[t].upstream[1].kind = "reply"
           THEN /\ fr[t].result.status = "healthy"
                /\ fr[t].result.rate_limit_remaining = max_calls - InWindow(calls, now)
           ELSE /\ fr[t].result.status = "unhealthy"
                /\ fr[t].invocations = 1
                /\ fr[t].attempt = 0


\* the requests sent upstream while handler thread t served its turn: those
\* of get_ai_response and the one of get_suggested_responses
UpstreamInvocations(t) ==
    hfr[t].generation.invocations + Occurrences(hfr[t].trace, "get_suggested_responses")

\* C37: every upstream request made while serving a user turn follows an
\* admission by the rate limiter and is recorded in the rate log, the
\* suggestion request after the main response included.
EveryUpstreamCallGated ==
    \A t \in threads :
        hpc[t] = "finished"
        => /\ UpstreamInvocations(t) <= hfr[t].generation.admitted
           /\ UpstreamInvocations(t) <= hfr[t].generation.records


\* C38: is_speaking is true in every state in which at least one synthesis
\* task is between its start and its completion, overlapping requests and
\* interrupted tasks included.  Stated for the tasks that have set the flag
\* (line 263), have not reached their finally block and were not stopped.
SpeakingWhileAnyTaskRuns ==
    (\E i \in DOMAIN speech_threads : Playing(i)) => voice_service.is_speaking


(***************************************************************************)
(* Properties of the context across users.                                  *)
(***************************************************************************)
\* C39: the history passed to the model for a turn holds only turns of the
\* user the turn belongs to: no turn of one user is in the context built
\* for another user's request.
ContextOfSameUserOnly ==
    \A b \in Browsers :
        \A i \in DOMAIN zyeon.requests[b].authors : zyeon.requests[b].authors[i] = b

\* the same for main.py: the history a handler read for its turn holds only
\* stored turns of the turn's user_id
StoredContextOfSameUserOnly ==
    \A t \in threads :
        \A i \in DOMAIN hfr[t].conversation_history :
            hfr[t].conversation_history[i].user_id = hfr[t].user_id


(***************************************************************************)
(* Properties of the speaking callbacks.                                    *)
(***************************************************************************)
\* synthesis thread i has called the callback cb this many times
TimesFired(i, cb) ==
    IF i \in DOMAIN speech_threads THEN Occurrences(speech_threads[i].fired, cb) ELSE 0

\* C40: every synthesis task that fires the speaking-started callback
\* eventually fires the speaking-finished callback, and never more than
\* once, whether synthesis completes, raises or is interrupted.
StartedThenFinishedOnce ==
    /\ \A i \in 1..MaxUtterances :
            (TimesFired(i, "on_speaking_started") > 0)
                ~> (TimesFired(i, "on_speaking_finished") = 1)
    /\ [](\A i \in 1..MaxUtterances : TimesFired(i, "on_speaking_finished") <= 1)

\* an interrupted utterance and an utterance whose synthesis raised have
\* both fired started and then finished
InterruptedAndFailedFinished ==
    /\ \E i \in DOMAIN speech_threads :
        /\ speech_threads[i].cancelled
        /\ speech_threads[i].fired = <<"on_speaking_started", "on_speaking_finished">>
    /\ \E i \in DOMAIN speech_threads :
        /\ EngineErrorMsg \in speech_threads[i].raised
        /\ speech_threads[i].fired = <<"on_speaking_started", "on_speaking_finished">>

====
